---------------------------- MODULE Spec2Model ----------------------------
(***************************************************************************)
(* A model of the layout engine of cleanhaus-calendar: the Month view's    *)
(* horizontal positioning, global row assignment and per-day overflow      *)
(* count, and the Day view's vertical positioning.                         *)
(*                                                                         *)
(* Time.  A Date / dayjs value is a local wall-clock instant with          *)
(* millisecond resolution.  It is written [d |-> day, ms |-> msOfDay],     *)
(* where day counts calendar days from a Sunday (day 0, so day % 7 is      *)
(* dayjs's day()) and msOfDay is in 0 .. 86399999.  Daylight saving is not *)
(* modelled: every day has 24 hours.                                       *)
(*                                                                         *)
(* Pixels.  The code computes pixel values in floating point; the model    *)
(* computes the same expressions exactly, as integers in a fixed fraction  *)
(* of a pixel (stated at each function), so floating-point rounding is not *)
(* modelled.                                                               *)
(*                                                                         *)
(* Strings.  An eventId is written as the sequence of the character codes  *)
(* that follow its common prefix ("entity-"); String.prototype comparison  *)
(* is the lexicographic order of these sequences.                          *)
(***************************************************************************)
EXTENDS Integers, Sequences, FiniteSets, TLC

\* ------------------------------------------------------------------ bounds

\* Largest number of events handed to the Month view in one relayout.
MaxEvents == 3
\* Largest number of positions handed to assignGlobalRows on its own.
MaxPositions == 4
\* Largest value of the maxVisibleRows prop.
MaxRows == 2

\* --------------------------------------------------------------- constants

MINUTES_IN_DAY == 1440
HOURS_IN_DAY == 24
HOUR_HEIGHT == 80
\* Math.max(width, 2) in getMultiDayPosition
MIN_WIDTH == 2
\* Math.max(durationHours * hourHeight, 20) in getEventPosition
MIN_HEIGHT == 20

MsPerMinute == 60 * 1000
MsPerHour == 60 * MsPerMinute
MsPerDay == MINUTES_IN_DAY * MsPerMinute

\* ------------------------------------------------------------------- dayjs

Max(a, b) == IF a >= b THEN a ELSE b
Min(a, b) == IF a <= b THEN a ELSE b

Instant(day, ms) == [d |-> day, ms |-> ms]

\* a < b on instants (Dayjs.isBefore without a unit, Date comparison)
Before(a, b) == a.d < b.d \/ (a.d = b.d /\ a.ms < b.ms)

\* Dayjs.startOf(unit) for the units the code uses
startOf(t, unit) ==
  CASE unit = "millisecond" -> t
    [] unit = "minute" -> Instant(t.d, (t.ms \div MsPerMinute) * MsPerMinute)
    [] unit = "day" -> Instant(t.d, 0)
    [] unit = "week" -> Instant(t.d - (t.d % 7), 0)

\* Dayjs.endOf(unit): the last millisecond of the unit
endOf(t, unit) ==
  CASE unit = "millisecond" -> t
    [] unit = "minute" ->
         Instant(t.d, (t.ms \div MsPerMinute) * MsPerMinute + MsPerMinute - 1)
    [] unit = "day" -> Instant(t.d, MsPerDay - 1)
    [] unit = "week" -> Instant(t.d - (t.d % 7) + 6, MsPerDay - 1)

\* Dayjs.isBefore(that, unit):  this.endOf(unit) < that
isBefore(this, that, unit) == Before(endOf(this, unit), that)

\* Dayjs.isAfter(that, unit):  that < this.startOf(unit)
isAfter(this, that, unit) == Before(that, startOf(this, unit))

\* isBetween with the default inclusivity "()"
isBetweenExclusive(this, a, b, unit) ==
  \/ (isAfter(this, a, unit) /\ isBefore(this, b, unit))
  \/ (isBefore(this, a, unit) /\ isAfter(this, b, unit))

\* the isBetween plugin with inclusivity "[]"
isBetween(this, a, b, unit) ==
  \/ (~isBefore(this, a, unit) /\ ~isAfter(this, b, unit))
  \/ (~isAfter(this, a, unit) /\ ~isBefore(this, b, unit))

\* Dayjs.day(): day of the week, 0 = Sunday
dayOfWeek(t) == t.d % 7

\* this.diff(that, "minute"): the difference in whole minutes, truncated
\* towards zero
diffMinutes(this, that) ==
  LET dd == this.d - that.d
      r == this.ms - that.ms
  IN  IF dd > 0 \/ (dd = 0 /\ r >= 0)
        THEN dd * MINUTES_IN_DAY + (r \div MsPerMinute)
        ELSE -((-dd) * MINUTES_IN_DAY + ((-r) \div MsPerMinute))

\* Date.getHours(), Date.getMinutes()
getHours(t) == t.ms \div MsPerHour
getMinutes(t) == (t.ms % MsPerHour) \div MsPerMinute

\* ---------------------------------------------------------------- dateUtils

getDayStart(date) == startOf(date, "day")
getDayEnd(date) == endOf(date, "day")

\* the date as given, not clamped
noClampToDay(date, dayStart, dayEnd) == date

clampToDay(date, dayStart, dayEnd) ==
  IF Before(date, dayStart) THEN dayStart
  ELSE IF Before(dayEnd, date) THEN dayEnd
  ELSE date

eventOverlapsDay(eventStart, eventEnd, targetDate) ==
  /\ Before(eventStart, getDayEnd(targetDate))
  /\ Before(getDayStart(targetDate), eventEnd)

\* ------------------------------------------------------------- MonthView/utils

(* Pixel values of the Month view are integers in units of 1/(7 * 1440) px. *)
(* cellWidth = calendarWidth / 7 is then calendarWidth * 1440, and          *)
(* (minutes / MINUTES_IN_DAY) * cellWidth is minutes * calendarWidth.       *)
PxScale == 7 * MINUTES_IN_DAY

Null == [isNull |-> TRUE]

\* the whole cell of the day, whatever the event's times
getWholeDayPosition(event, date, cellWidth) == [left |-> 0, width |-> cellWidth]

getHorizontalPositionInDay(event, date, cellWidth) ==
  LET dayStart == startOf(date, "day")
      dayEnd == endOf(date, "day")
      eventStart == IF Before(event.start, dayStart) THEN dayStart ELSE event.start
      eventEnd == IF Before(dayEnd, event.end) THEN dayEnd ELSE event.end
      startMinutes == diffMinutes(eventStart, dayStart)
      durationMinutes == diffMinutes(eventEnd, eventStart)
  IN  [left |-> startMinutes * (cellWidth \div MINUTES_IN_DAY),
       width |-> durationMinutes * (cellWidth \div MINUTES_IN_DAY)]

\* the left and the width getMultiDayPosition computes before the 2px floor
multiDaySpan(event, weekStartDate, cellWidth) ==
  LET eventStart == event.start
      eventEnd == event.end
      weekEndDate == endOf(weekStartDate, "week")
      isStartWeek == isBetween(eventStart, weekStartDate, weekEndDate, "day")
      isEndWeek == isBetween(eventEnd, weekStartDate, weekEndDate, "day")
      startDayOfWeek == dayOfWeek(eventStart)
      endDayOfWeek == dayOfWeek(eventEnd)
      startPos == getHorizontalPositionInDay(event, startOf(eventStart, "day"), cellWidth)
      endPos == getHorizontalPositionInDay(event, startOf(eventEnd, "day"), cellWidth)
      daySpan == endDayOfWeek - startDayOfWeek
  IN  IF isStartWeek /\ isEndWeek THEN
        IF daySpan = 0
          THEN [left |-> startDayOfWeek * cellWidth + startPos.left,
                width |-> startPos.width]
          ELSE [left |-> startDayOfWeek * cellWidth + startPos.left,
                width |-> cellWidth - startPos.left + (daySpan - 1) * cellWidth
                          + endPos.left + endPos.width]
      ELSE IF isStartWeek THEN
        [left |-> startDayOfWeek * cellWidth + startPos.left,
         width |-> (7 - startDayOfWeek) * cellWidth - startPos.left]
      ELSE IF isEndWeek THEN
        [left |-> 0,
         width |-> endDayOfWeek * cellWidth + endPos.left + endPos.width]
      ELSE
        [left |-> 0, width |-> 7 * cellWidth]

\* the width as computed
noFloorWidth(width) == width

\* Math.max(width, 2)
floorWidth(width) == Max(width, MIN_WIDTH * PxScale)

getMultiDayPosition(event, weekStartDate, weekIndex, cellWidth) ==
  LET eventStart == event.start
      eventEnd == event.end
      weekEndDate == endOf(weekStartDate, "week")
      span == multiDaySpan(event, weekStartDate, cellWidth)
  IN  IF isBefore(eventEnd, weekStartDate, "day") \/ isAfter(eventStart, weekEndDate, "day")
        THEN Null
        ELSE [event |-> event,
              left |-> span.left,
              width |-> floorWidth(span.width),
              row |-> 0,
              weekIndex |-> weekIndex,
              isVisible |-> TRUE,
              isFirstWeek |-> isBetween(eventStart, weekStartDate, weekEndDate, "day"),
              isLastWeek |-> isBetween(eventEnd, weekStartDate, weekEndDate, "day")]

\* String comparison a < b (UTF-16 code units, lexicographic)
RECURSIVE stringLess(_, _)
stringLess(a, b) ==
  IF b = <<>> THEN FALSE
  ELSE IF a = <<>> THEN TRUE
  ELSE IF Head(a) # Head(b) THEN Head(a) < Head(b)
  ELSE stringLess(Tail(a), Tail(b))

\* new Set<string>() filled by positions.forEach: the distinct eventIds in
\* first-insertion order
RECURSIVE uniqueEventIds(_)
uniqueEventIds(positions) ==
  IF positions = <<>> THEN <<>>
  ELSE LET init == uniqueEventIds(SubSeq(positions, 1, Len(positions) - 1))
           id == positions[Len(positions)].event.eventId
       IN  IF \E i \in 1..Len(init) : init[i] = id THEN init ELSE Append(init, id)

\* insert id into the sorted sequence s
RECURSIVE insertSorted(_, _)
insertSorted(s, id) ==
  IF s = <<>> THEN <<id>>
  ELSE IF stringLess(id, Head(s)) THEN <<id>> \o s
  ELSE <<Head(s)>> \o insertSorted(Tail(s), id)

RECURSIVE sortSeq(_)
sortSeq(ids) ==
  IF ids = <<>> THEN <<>>
  ELSE insertSorted(sortSeq(Tail(ids)), Head(ids))

\* Array.from(uniqueEventIds).sort() without the sort
unsortedEventIds(ids) == ids

\* Array.from(uniqueEventIds).sort()
sortedEventIds(ids) == sortSeq(ids)

\* globalEventIdToRow.get(eventId) || 0, for the map eventId -> index built
\* from the sorted list
globalEventIdToRow(sorted, eventId) ==
  IF \E i \in 1..Len(sorted) : sorted[i] = eventId
    THEN (CHOOSE i \in 1..Len(sorted) : sorted[i] = eventId) - 1
    ELSE 0

\* the subsequence of s whose elements are in week w, in order
RECURSIVE inWeek(_, _)
inWeek(s, w) ==
  IF s = <<>> THEN <<>>
  ELSE IF Head(s).weekIndex = w THEN <<Head(s)>> \o inWeek(Tail(s), w)
  ELSE inWeek(Tail(s), w)

\* rows assigned from the eventIds of each week on its own
assignRowsPerWeek(positions, maxVisibleRows) ==
  LET weekIdxs == {positions[i].weekIndex : i \in 1..Len(positions)}
  IN  [w \in weekIdxs |->
        LET ps == inWeek(positions, w)
            sorted == sortedEventIds(uniqueEventIds(ps))
        IN  [i \in 1..Len(ps) |->
              LET row == globalEventIdToRow(sorted, ps[i].event.eventId)
              IN  [ps[i] EXCEPT !.row = row, !.isVisible = row < maxVisibleRows]]]

\* positions at or beyond the limit dropped instead of kept invisible
assignRowsDropHidden(positions, maxVisibleRows) ==
  LET sorted == sortedEventIds(uniqueEventIds(positions))
      updated == [i \in 1..Len(positions) |->
                   LET row == globalEventIdToRow(sorted, positions[i].event.eventId)
                   IN  [positions[i] EXCEPT !.row = row,
                                            !.isVisible = row < maxVisibleRows]]
      kept == SelectSeq(updated, LAMBDA p : p.isVisible)
      weekIdxs == {kept[i].weekIndex : i \in 1..Len(kept)}
  IN  [w \in weekIdxs |-> inWeek(kept, w)]

\* The result Map<number, EventPosition[]> is the function from the week
\* indexes that occur to the list of that week's positions.
assignGlobalRows(positions, maxVisibleRows) ==
  LET sorted == sortedEventIds(uniqueEventIds(positions))
      updated == [i \in 1..Len(positions) |->
                   LET row == globalEventIdToRow(sorted, positions[i].event.eventId)
                   IN  [positions[i] EXCEPT !.row = row,
                                            !.isVisible = row < maxVisibleRows]]
      weekIdxs == {positions[i].weekIndex : i \in 1..Len(positions)}
  IN  [w \in weekIdxs |-> inWeek(updated, w)]

\* calendarize(target.toDate(), 0): the weeks of the month grid, each the 7
\* day numbers of its cells, 0 for a cell outside the month.  target is
\* [first |-> the day of the 1st of the month, len |-> its number of days].
calendarize(target) ==
  LET first == target.first % 7
      n == (first + target.len + 6) \div 7
  IN  [w \in 0..(n - 1) |->
        [j \in 0..6 |->
          LET i == 7 * w + j - first + 1
          IN  IF i >= 1 /\ i <= target.len THEN i ELSE 0]]

\* target.date(dayNum); its time of day is dropped, every use takes
\* startOf / endOf of it
dateOfMonth(target, dayNum) == Instant(target.first + dayNum - 1, 0)

\* the test of calculateOverflowByDay: the event touches the day of date
touchesDay(event, date) ==
  /\ isBefore(event.start, endOf(date, "day"), "minute")
  /\ isAfter(event.end, startOf(date, "day"), "minute")

\* eventIdsOnThisDay for one cell
eventIdsOnThisDay(eventPositions, weekIndex, date) ==
  {eventPositions[i].event.eventId :
     i \in {k \in 1..Len(eventPositions) :
              /\ eventPositions[k].weekIndex = weekIndex
              /\ touchesDay(eventPositions[k].event, date)}}

hiddenCount(totalRows, maxVisibleRows) == Max(0, totalRows - maxVisibleRows)

\* The result Map<string, number> is the function from the keys
\* "weekIndex-dayIndex" that were set, written <<weekIndex, dayIndex>>.
calculateOverflowByDay(eventPositions, weeks, target, maxVisibleRows) ==
  LET cells == {c \in (DOMAIN weeks) \X (0..6) : weeks[c[1]][c[2]] > 0}
      count(c) == hiddenCount(
                    Cardinality(eventIdsOnThisDay(eventPositions, c[1],
                                  dateOfMonth(target, weeks[c[1]][c[2]]))),
                    maxVisibleRows)
  IN  [c \in {x \in cells : count(x) > 0} |-> count(c)]

\* ----------------------------------------------------------------- MonthView

\* week.find((d) => d > 0) || 1
firstDayNum(week) ==
  IF \E j \in 0..6 : week[j] > 0
    THEN week[CHOOSE j \in 0..6 : week[j] > 0 /\ \A k \in 0..(j - 1) : week[k] <= 0]
    ELSE 1

firstDayOfWeek(target, week) == startOf(dateOfMonth(target, firstDayNum(week)), "week")

\* the positions of one week, one per event that has one, in event order
RECURSIVE weekPositions(_, _, _, _)
weekPositions(evs, weekStart, weekIndex, cellWidth) ==
  IF evs = <<>> THEN <<>>
  ELSE LET position == getMultiDayPosition(Head(evs), weekStart, weekIndex, cellWidth)
           rest == weekPositions(Tail(evs), weekStart, weekIndex, cellWidth)
       IN  IF position # Null THEN <<position>> \o rest ELSE rest

RECURSIVE allPositionsFrom(_, _, _, _, _)
allPositionsFrom(weekIndex, evs, weeks, target, cellWidth) ==
  IF weekIndex \notin DOMAIN weeks THEN <<>>
  ELSE weekPositions(evs, firstDayOfWeek(target, weeks[weekIndex]), weekIndex, cellWidth)
       \o allPositionsFrom(weekIndex + 1, evs, weeks, target, cellWidth)

\* the eventPositions memo; cellWidth = calendarWidth / 7
computeEventPositions(evs, target, width) ==
  allPositionsFrom(0, evs, calendarize(target), target, width * MINUTES_IN_DAY)

\* -------------------------------------------------------------- eventHelpers

\* the character is one of "0".."9"
isDigit(c) == c >= 48 /\ c <= 57

\* the \d+ of the regular expression: the longest run of digits at the front
RECURSIVE leadingDigits(_)
leadingDigits(s) ==
  IF s = <<>> \/ ~isDigit(Head(s)) THEN <<>>
  ELSE <<Head(s)>> \o leadingDigits(Tail(s))

\* parseInt(digits, 10)
RECURSIVE parseInt(_)
parseInt(digits) ==
  IF digits = <<>> THEN 0
  ELSE 10 * parseInt(SubSeq(digits, 1, Len(digits) - 1)) + (digits[Len(digits)] - 48)

(* extractEntityId of the eventId "entity-" \o s, given as s: the number n  *)
(* after the prefix, as [id |-> n], or null when no digit follows it.       *)
extractEntityId(eventId) ==
  IF leadingDigits(eventId) = <<>> THEN Null
  ELSE [id |-> parseInt(leadingDigits(eventId))]

\* --------------------------------------------------------------- DayView/utils

\* events.filter(...) of getEventsForDate
getEventsForDate(evs, targetDate) ==
  SelectSeq(evs, LAMBDA event : eventOverlapsDay(event.start, event.end, targetDate))

\* the keys of propertyMap after properties.forEach: the ids in insertion order
RECURSIVE propertyMapKeys(_)
propertyMapKeys(properties) ==
  IF properties = <<>> THEN <<>>
  ELSE LET init == propertyMapKeys(SubSeq(properties, 1, Len(properties) - 1))
           id == properties[Len(properties)]
       IN  IF \E i \in 1..Len(init) : init[i] = id THEN init ELSE Append(init, id)

(* groupEventsByProperty: one group for each property to show, holding the  *)
(* events whose entity id is the property's id; properties are lists of ids *)
(* and propertiesToShow is Null when not given.                             *)
groupEventsByProperty(evs, availableProperties, propertiesToShow) ==
  LET keys == propertyMapKeys(IF propertiesToShow # Null THEN propertiesToShow
                              ELSE availableProperties)
  IN  [k \in 1..Len(keys) |->
         [propertyId |-> keys[k],
          events |-> SelectSeq(evs, LAMBDA event :
                       /\ extractEntityId(event.eventId) # Null
                       /\ extractEntityId(event.eventId).id = keys[k])]]

getEventsForProperty(evs, propertyId) ==
  SelectSeq(evs, LAMBDA event :
    /\ extractEntityId(event.eventId) # Null
    /\ extractEntityId(event.eventId).id = propertyId)

\* the propertyEvents of the lanes, lane after lane
RECURSIVE laneEvents(_)
laneEvents(groups) ==
  IF groups = <<>> THEN <<>>
  ELSE getEventsForProperty(Head(groups).events, Head(groups).propertyId)
       \o laneEvents(Tail(groups))

\* end.diff(start, "hour", true) * 3600000: the difference in milliseconds
durationMs(start, end) == (end.d - start.d) * MsPerDay + (end.ms - start.ms)

(* Pixel values of the Day view are integers in units of hourHeight/3600000  *)
(* px, the height of one millisecond: (hours + minutes / 60) * hourHeight is *)
(* the milliseconds of these hours and minutes, durationHours * hourHeight   *)
(* is the duration in milliseconds, 24 * hourHeight is MsPerDay, and the     *)
(* minimum height of 20 px is 20 * 3600000 / hourHeight (hourHeight divides  *)
(* 72000000).                                                                 *)
dayPx(px, hourHeight) == (px * MsPerHour) \div hourHeight

\* HOURS_IN_DAY * hourHeight px, the height of the day
dayHeight == HOURS_IN_DAY * MsPerHour

getEventPosition(event, hourHeight, targetDate) ==
  LET dayStart == getDayStart(targetDate)
      dayEnd == getDayEnd(targetDate)
      renderStart == clampToDay(event.start, dayStart, dayEnd)
      renderEnd == clampToDay(event.end, dayStart, dayEnd)
      startHour == getHours(renderStart)
      startMinute == getMinutes(renderStart)
      top == (startHour * 60 + startMinute) * MsPerMinute
      height == Max(durationMs(renderStart, renderEnd), dayPx(MIN_HEIGHT, hourHeight))
  IN  [top |-> top, height |-> height]

\* ------------------------------------------------------------- WeekView/utils

MAX_EVENTS_PER_SLOT == 2
INDICATOR_COLLAPSED_ROWS == 2

\* the types of event.meta.type that count for the presence bars
IndicatorTypes == {"property", "cleaning", "service", "otherService"}

\* Dayjs.add(n, "day")
addDays(t, n) == Instant(t.d + n, t.ms)

\* Dayjs.diff(that, "day"): whole days, truncated toward zero
diffDays(this, that) ==
  LET whole == this.d - that.d
  IN  IF Before(this, that)
      THEN IF this.ms > that.ms THEN whole + 1 ELSE whole
      ELSE IF this.ms < that.ms THEN whole - 1 ELSE whole

\* getWeekBoundaries(date).start
getWeekBoundaries(date) == startOf(date, "week")

getEventsForWeek(evs, weekStart) ==
  LET weekEnd == endOf(addDays(weekStart, 6), "day")
      weekStartDate == startOf(weekStart, "day")
  IN  SelectSeq(evs, LAMBDA event :
        /\ (Before(event.start, weekEnd) \/ event.start = weekEnd)
        /\ (Before(weekStartDate, event.end) \/ event.end = weekStartDate))

\* the filter of getEventsForDay with isSame allowed, as in getEventsForWeek
getEventsForDayInclusive(evs, day) ==
  SelectSeq(evs, LAMBDA event :
    /\ ~Before(endOf(day, "day"), event.start)
    /\ ~Before(event.end, startOf(day, "day")))

getEventsForDay(evs, day) ==
  LET dayStart == startOf(day, "day")
      dayEnd == endOf(day, "day")
  IN  SelectSeq(evs, LAMBDA event :
        Before(event.start, dayEnd) /\ Before(dayStart, event.end))

(* getPropertyIndicatorData, first half: the propertyPresenceMap. An event  *)
(* counts when its type is one of the four, its eventId has an entity id    *)
(* and it is not wholly outside weekStart .. weekStart + 6 days.            *)
countsForPresence(event, weekStart) ==
  LET weekEnd == addDays(weekStart, 6)
  IN  /\ event.type # "unassigned"
      /\ extractEntityId(event.eventId) # Null
      /\ event.type \in IndicatorTypes
      /\ ~(Before(event.end, weekStart) \/ Before(weekEnd, event.start))

\* the days startDay..endDay the event adds to its entity's presenceDays
eventPresenceDays(event, weekStart) ==
  LET weekEnd == addDays(weekStart, 6)
      rawStart == IF Before(event.start, weekStart) THEN 0
                  ELSE diffDays(event.start, weekStart)
      rawEnd == IF Before(weekEnd, event.end) THEN 6
                ELSE diffDays(event.end, weekStart)
      startDay == Max(0, Min(6, rawStart))
      endDay == Max(0, Min(6, rawEnd))
  IN  startDay..endDay

\* the keys of propertyPresenceMap in insertion order
RECURSIVE presenceKeys(_, _)
presenceKeys(evs, weekStart) ==
  IF evs = <<>> THEN <<>>
  ELSE LET init == presenceKeys(SubSeq(evs, 1, Len(evs) - 1), weekStart)
           event == evs[Len(evs)]
       IN  IF ~countsForPresence(event, weekStart) THEN init
           ELSE LET key == extractEntityId(event.eventId).id
                IN  IF \E i \in 1..Len(init) : init[i] = key THEN init
                    ELSE Append(init, key)

\* propertyPresenceMap.get(key).presenceDays
presenceDays(evs, weekStart, key) ==
  UNION {eventPresenceDays(evs[i], weekStart) :
           i \in {j \in 1..Len(evs) : /\ countsForPresence(evs[j], weekStart)
                                      /\ extractEntityId(evs[j].eventId).id = key}}

\* Array.from(presenceDays).sort((a, b) => a - b)
RECURSIVE sortedDays(_)
sortedDays(days) ==
  IF days = {} THEN <<>>
  ELSE LET least == CHOOSE d \in days : \A e \in days : d <= e
       IN  <<least>> \o sortedDays(days \ {least})

\* the loop over presenceDays[i], i >= 1, with the segment in progress
RECURSIVE segmentLoop(_, _, _, _, _)
segmentLoop(key, days, i, segmentStart, segmentEnd) ==
  IF i > Len(days)
  THEN <<[propertyId |-> key, startDay |-> segmentStart, endDay |-> segmentEnd]>>
  ELSE IF days[i] = segmentEnd + 1
  THEN segmentLoop(key, days, i + 1, segmentStart, days[i])
  ELSE <<[propertyId |-> key, startDay |-> segmentStart, endDay |-> segmentEnd]>>
       \o segmentLoop(key, days, i + 1, days[i], days[i])

\* one indicator from the first to the last day of presence
oneSegment(key, days) ==
  IF days = <<>> THEN <<>>
  ELSE <<[propertyId |-> key, startDay |-> days[1], endDay |-> days[Len(days)]]>>

\* the indicators of one entry of the map
keySegments(key, days) ==
  IF days = <<>> THEN <<>>
  ELSE segmentLoop(key, days, 2, days[1], days[1])

RECURSIVE segmentsOfKeys(_, _, _)
segmentsOfKeys(keys, evs, weekStart) ==
  IF keys = <<>> THEN <<>>
  ELSE keySegments(Head(keys), sortedDays(presenceDays(evs, weekStart, Head(keys))))
       \o segmentsOfKeys(Tail(keys), evs, weekStart)

getPropertyIndicatorData(evs, weekStart) ==
  segmentsOfKeys(presenceKeys(evs, weekStart), evs, weekStart)

\* ------------------------------------------------ WeekView/utils/indicators

\* propertyIdToRow after the indicators: its keys in insertion order, the
\* row of a key being its index
RECURSIVE propertyIdToRow(_)
propertyIdToRow(indicators) ==
  IF indicators = <<>> THEN <<>>
  ELSE LET init == propertyIdToRow(SubSeq(indicators, 1, Len(indicators) - 1))
           id == indicators[Len(indicators)].propertyId
       IN  IF \E i \in 1..Len(init) : init[i] = id THEN init ELSE Append(init, id)

\* propertyIdToRow.get(id)
rowOfProperty(map, id) == (CHOOSE i \in 1..Len(map) : map[i] = id) - 1

\* every indicator gets the row of its segment's index, not of its property
rowsBySegmentIndex(propertyIndicators) ==
  [i \in 1..Len(propertyIndicators) |->
     [propertyId |-> propertyIndicators[i].propertyId,
      startDay |-> propertyIndicators[i].startDay,
      endDay |-> propertyIndicators[i].endDay,
      row |-> i - 1]]

getPropertyIndicatorsWithRows(propertyIndicators) ==
  [i \in 1..Len(propertyIndicators) |->
     [propertyId |-> propertyIndicators[i].propertyId,
      startDay |-> propertyIndicators[i].startDay,
      endDay |-> propertyIndicators[i].endDay,
      row |-> rowOfProperty(propertyIdToRow(SubSeq(propertyIndicators, 1, i)),
                            propertyIndicators[i].propertyId)]]

\* the split with the visible indicators counted as hidden too
splitCountingAll(indicatorsWithRows, visibleLimit) ==
  [visibleIndicators |-> SelectSeq(indicatorsWithRows, LAMBDA ind : ind.row < visibleLimit),
   overflowCount |-> Len(indicatorsWithRows),
   overflowByDay |-> [d \in 0..6 |->
      Cardinality({i \in 1..Len(indicatorsWithRows) :
                     /\ indicatorsWithRows[i].startDay <= d
                     /\ d <= indicatorsWithRows[i].endDay})]]

splitVisibleAndOverflow(indicatorsWithRows, visibleLimit) ==
  LET hidden == {i \in 1..Len(indicatorsWithRows) :
                   indicatorsWithRows[i].row >= visibleLimit}
  IN  [visibleIndicators |->
         SelectSeq(indicatorsWithRows, LAMBDA ind : ~(ind.row >= visibleLimit)),
       overflowCount |-> Cardinality(hidden),
       overflowByDay |-> [d \in 0..6 |->
          Cardinality({i \in hidden : /\ indicatorsWithRows[i].startDay <= d
                                      /\ d <= indicatorsWithRows[i].endDay})]]

getWeekVisibleLimit(expanded, maxRowInWeek) ==
  IF expanded THEN maxRowInWeek + 1 ELSE INDICATOR_COLLAPSED_ROWS

\* propertyIndicatorsWithRows.reduce((m, ind) => Math.max(m, ind.row), 0)
RECURSIVE maxRowOf(_)
maxRowOf(indicatorsWithRows) ==
  IF indicatorsWithRows = <<>> THEN 0
  ELSE Max(maxRowOf(Tail(indicatorsWithRows)), Head(indicatorsWithRows).row)

\* extractPropertyId: the entity id as a string, or undefined (null here)
extractPropertyId(event) == extractEntityId(event.eventId)

\* the points {t, d} of calculateDayOverflow: d = 1 at a start, -1 at an end
overflowPoints(evs) ==
  [k \in 1..(2 * Len(evs)) |->
     IF k % 2 = 1 THEN [t |-> evs[(k + 1) \div 2].start, d |-> 1]
     ELSE [t |-> evs[k \div 2].end, d |-> 0 - 1]]

\* the comparator with ties in the order start, end
pointBeforeStartFirst(a, b) ==
  IF a.t = b.t THEN a.d > b.d ELSE Before(a.t, b.t)

\* the comparator (a, b) => (a.t === b.t ? a.d - b.d : a.t - b.t) is negative
pointBefore(a, b) ==
  IF a.t = b.t THEN a.d < b.d ELSE Before(a.t, b.t)

\* points.sort(comparator)
RECURSIVE insertPoint(_, _)
insertPoint(s, p) ==
  IF s = <<>> THEN <<p>>
  ELSE IF pointBefore(p, Head(s)) THEN <<p>> \o s
  ELSE <<Head(s)>> \o insertPoint(Tail(s), p)

RECURSIVE sortPoints(_)
sortPoints(points) ==
  IF points = <<>> THEN <<>>
  ELSE insertPoint(sortPoints(Tail(points)), Head(points))

\* the loop over the sorted points: the largest running sum
RECURSIVE maxOverlapFrom(_, _, _)
maxOverlapFrom(points, cur, maxOverlap) ==
  IF points = <<>> THEN maxOverlap
  ELSE LET next == cur + Head(points).d
       IN  maxOverlapFrom(Tail(points), next, Max(maxOverlap, next))

calculateDayOverflow(evs) ==
  IF Len(evs) = 0 THEN 0
  ELSE Max(0, maxOverlapFrom(sortPoints(overflowPoints(evs)), 0, 0) - 2)

\* --------------------------------------------------------- WeekView/DayColumn

\* insert event into s, sorted by start, before the events that start no
\* earlier (the sort is stable)
RECURSIVE insertByStart(_, _)
insertByStart(s, event) ==
  IF s = <<>> THEN <<event>>
  ELSE IF Before(Head(s).start, event.start)
  THEN <<Head(s)>> \o insertByStart(Tail(s), event)
  ELSE <<event>> \o s

\* [...events].sort((a, b) => dayjs(a.start).diff(dayjs(b.start)))
RECURSIVE sortedEvents(_)
sortedEvents(evs) ==
  IF evs = <<>> THEN <<>>
  ELSE insertByStart(sortedEvents(Tail(evs)), Head(evs))

\* the test with the bounds allowed to touch
overlapsOrTouches(event, other) ==
  /\ ~Before(event.end, other.start)
  /\ ~Before(other.end, event.start)

\* the test of the filter: other overlaps event in time
overlapsInTime(event, other) ==
  \/ (Before(other.start, event.end) /\ Before(event.start, other.end))
  \/ (Before(event.start, other.end) /\ Before(other.start, event.end))

\* the clusters when only the seed is marked as processed
RECURSIVE clustersMarkingSeedOnly(_, _, _)
clustersMarkingSeedOnly(sorted, i, processed) ==
  IF i > Len(sorted) THEN <<>>
  ELSE IF sorted[i].id \in processed THEN clustersMarkingSeedOnly(sorted, i + 1, processed)
  ELSE LET overlapping == SelectSeq(sorted, LAMBDA other :
                            other.id \notin processed /\ overlapsInTime(sorted[i], other))
       IN  <<overlapping>>
           \o clustersMarkingSeedOnly(sorted, i + 1, processed \cup {sorted[i].id})

\* sortedEvents.forEach from index i on, with the processed ids: the lists
\* `overlapping`, one for each event not yet processed
RECURSIVE overlapClusters(_, _, _)
overlapClusters(sorted, i, processed) ==
  IF i > Len(sorted) THEN <<>>
  ELSE IF sorted[i].id \in processed THEN overlapClusters(sorted, i + 1, processed)
  ELSE LET overlapping == SelectSeq(sorted, LAMBDA other :
                            other.id \notin processed /\ overlapsInTime(sorted[i], other))
           ids == {overlapping[k].id : k \in 1..Len(overlapping)}
       IN  <<overlapping>> \o overlapClusters(sorted, i + 1, processed \cup ids)

\* overlapping.slice(0, MAX_EVENTS_PER_SLOT)
sliceSlot(overlapping) == SubSeq(overlapping, 1, Min(Len(overlapping), MAX_EVENTS_PER_SLOT))

\* the eventGroups memo
eventGroups(sorted) ==
  LET clusters == overlapClusters(sorted, 1, {})
  IN  [g \in 1..Len(clusters) |-> sliceSlot(clusters[g])]

\* the overflow of a group in the render
groupOverflow(group, evs) ==
  IF Len(group) = MAX_EVENTS_PER_SLOT
  THEN Cardinality({i \in 1..Len(evs) : overlapsInTime(evs[i], group[1])})
       - MAX_EVENTS_PER_SLOT
  ELSE 0

\* -------------------------------------------------------------------- state

VARIABLES
  \* MonthView: props and state
  events,           \* the events prop, a list
  target,           \* the month of the targetDate prop
  calendarWidth,    \* the calendarWidth state, in px
  maxVisibleRows,   \* the maxVisibleRows prop
  \* MonthView: the three memos of the last render
  eventPositions,
  positionsByWeek,
  overflowByDay,
  \* assignGlobalRows on its own: arguments, result, and whether it was called
  rowPositions,
  rowLimit,
  rowResult,
  rowDone,
  \* Day view: one event of the events prop, the targetDate and hourHeight
  \* props, the events getEventsForDate keeps and their positions
  dayEvent,
  dayTarget,
  dayHourHeight,
  dayViewed,
  dayPositions,
  dayPc,
  \* Day view: the availableProperties and propertiesToShow props, and the
  \* eventsByProperty memo
  dayProperties,
  eventsByProperty,
  \* WeekView: the events and targetDate props, the expandedWeek state
  wkEvents,
  wkTarget,
  expandedWeek,
  \* WeekView: the memos of the last render
  weekEvents,
  propertyIndicatorsWithRows,
  weekVisibleLimit,
  weekSplit,        \* visibleIndicators, overflowCount, overflowByDay
  dayEventsPerDay,
  dayOverflowCounts,
  \* one DayColumn: its events prop, its memos, the overflow of each group
  \* in its render, and the day's overflow count of the parent
  colEvents,
  colSortedEvents,
  colEventGroups,
  colGroupOverflow,
  colDayOverflow,
  colPc,
  \* Calendar: the view and date props, whether the onDateTimeChange and
  \* onViewChange props are given, the event pressed last and the view it
  \* was pressed in, and the props the press made the Calendar call
  calView,
  calDate,
  calHandlers,
  calPressed,
  calCalls,
  \* useSwipeGesture: whether it is enabled (and not on the web), the ref
  \* panHandledRef, where the gesture is (no touch, touching, responder),
  \* its last move, the callbacks called during the gesture, and the
  \* number of gestures begun
  swipeEnabled,
  panHandledRef,
  swipePc,
  swipeMove,
  swipeCalls,
  swipeGestures,
  \* useScrollSynchronization: the shared values
  isHeaderScrolling,
  isContentScrolling,
  headerScrollX,
  contentScrollX,
  \* the two horizontal scroll views ("header", "content"): their offset,
  \* whether the user drags them or they move by momentum, the scroll event
  \* a scrollTo has caused and that is not yet delivered, and what the last
  \* onScroll handler did
  scrollOffset,
  scrollPhase,
  scrollEcho,
  syncLast,
  \* DayView's vertical scroll: the targetDate and autoScrollToNow props,
  \* minutesSinceStartOfDay of useNowIndicator, the two refs, the animation
  \* frames requested by the two scroll effects and not yet run, and the
  \* scrolls performed since targetDate last changed
  scrollTarget,
  autoScrollToNow,
  minutesSinceStartOfDay,
  hasAutoScrolledRef,
  hasScrolledToTimeRef,
  timeFrame,
  autoFrame,
  verticalScrolls

monthVars == <<events, target, calendarWidth, maxVisibleRows,
               eventPositions, positionsByWeek, overflowByDay>>
rowVars == <<rowPositions, rowLimit, rowResult, rowDone>>
dayVars == <<dayEvent, dayTarget, dayHourHeight, dayViewed, dayPositions, dayPc,
             dayProperties, eventsByProperty>>
weekVars == <<wkEvents, wkTarget, expandedWeek, weekEvents, propertyIndicatorsWithRows,
              weekVisibleLimit, weekSplit, dayEventsPerDay, dayOverflowCounts>>
colVars == <<colEvents, colSortedEvents, colEventGroups, colGroupOverflow,
             colDayOverflow, colPc>>
calVars == <<calView, calDate, calHandlers, calPressed, calCalls>>
swipeVars == <<swipeEnabled, panHandledRef, swipePc, swipeMove, swipeCalls, swipeGestures>>
syncVars == <<isHeaderScrolling, isContentScrolling, headerScrollX, contentScrollX,
              scrollOffset, scrollPhase, scrollEcho, syncLast>>
scrollVars == <<scrollTarget, autoScrollToNow, minutesSinceStartOfDay, hasAutoScrolledRef,
                hasScrolledToTimeRef, timeFrame, autoFrame, verticalScrolls>>
uiVars == <<calVars, swipeVars, syncVars, scrollVars>>
vars == <<monthVars, rowVars, dayVars, weekVars, colVars, uiVars>>

\* what each view leaves alone
notMonthVars == <<rowVars, dayVars, weekVars, colVars, uiVars>>
notRowVars == <<monthVars, dayVars, weekVars, colVars, uiVars>>
notDayVars == <<monthVars, rowVars, weekVars, colVars, uiVars>>
notWeekVars == <<monthVars, rowVars, dayVars, colVars, uiVars>>
notColVars == <<monthVars, rowVars, dayVars, weekVars, uiVars>>
viewVars == <<monthVars, rowVars, dayVars, weekVars, colVars>>
notCalVars == <<viewVars, swipeVars, syncVars, scrollVars>>
notSwipeVars == <<viewVars, calVars, syncVars, scrollVars>>
notSyncVars == <<viewVars, calVars, swipeVars, scrollVars>>
notScrollVars == <<viewVars, calVars, swipeVars, syncVars>>

\* ------------------------------------------------------------------- inputs

\* the eventIds "entity-2", "entity-5" and "entity-10": the character codes
\* after the prefix
EventIds == {<<50>>, <<53>>, <<49, 48>>}

\* "entity-2" and "entity-10", which sort in the other order than 2 and 10
MonthEventIds == {<<50>>, <<49, 48>>}

\* Two consecutive months.  PrevMonth starts on a Saturday (day 6) and has 31
\* days, so its grid has the six weeks of days 0..41; ThisMonth starts on the
\* Tuesday after it (day 37) and has 30 days, its grid the five weeks of days
\* 35..69.  Days 35 and 36 are the last cells of the one grid and the leading
\* cells of the other.
PrevMonth == [first |-> 6, len |-> 31]
ThisMonth == [first |-> 37, len |-> 30]
Months == {PrevMonth, ThisMonth}

\* Times of day: 00:00, 00:00:30, 10:00, 14:00, 23:59, 23:59:30
TimesOfDay == {0, 30 * 1000, 10 * MsPerHour, 14 * MsPerHour,
               23 * MsPerHour + 59 * MsPerMinute,
               23 * MsPerHour + 59 * MsPerMinute + 30 * 1000}

\* Days: the Saturday before the week 35..41, its Sunday, Tuesday and
\* Saturday, and the Sunday after it
Days == {34, 35, 37, 41, 42}

Instants == {Instant(d, ms) : d \in Days, ms \in TimesOfDay}

\* One event with any start and end, degenerate ones (end <= start) included
AnyEvents == {[eventId |-> <<50>>, start |-> s, end |-> e] : s \in Instants, e \in Instants}

\* Intervals of the events of a list of several: within Tuesday; from the last
\* minute of Saturday into the next week; across the whole week 35..41
Intervals == {
  <<Instant(37, 10 * MsPerHour), Instant(37, 14 * MsPerHour)>>,
  <<Instant(41, 23 * MsPerHour + 59 * MsPerMinute), Instant(42, 10 * MsPerHour)>>,
  <<Instant(34, 10 * MsPerHour), Instant(42, 14 * MsPerHour)>> }

ListEvents == {[eventId |-> id, start |-> iv[1], end |-> iv[2]] :
                 id \in MonthEventIds, iv \in Intervals}

SeqsUpTo(S, n) == UNION {[1..k -> S] : k \in 0..n}

EventLists == {<<e>> : e \in AnyEvents} \cup SeqsUpTo(ListEvents, MaxEvents)

\* the initial width (0 when rendered on a server) and the widths onLayout
\* reports: 14 px (2 px cells) and 350 px (50 px cells)
CalendarWidths == {0, 14, 350}

RowLimits == 1..MaxRows

\* ---------------------------------------------------------------- MonthView

\* One render of MonthView: the eventPositions, positionsByWeek and
\* overflowByDay memos
Render(evs, tgt, width, limit) ==
  LET positions == computeEventPositions(evs, tgt, width)
  IN  /\ eventPositions' = positions
      /\ positionsByWeek' = assignGlobalRows(positions, limit)
      /\ overflowByDay' = calculateOverflowByDay(positions, calendarize(tgt), tgt, limit)

WeekIdle ==
  /\ wkEvents = <<>>
  /\ wkTarget = Instant(0, 0)
  /\ expandedWeek = FALSE
  /\ weekEvents = <<>>
  /\ propertyIndicatorsWithRows = <<>>
  /\ weekVisibleLimit = INDICATOR_COLLAPSED_ROWS
  /\ weekSplit = splitVisibleAndOverflow(<<>>, INDICATOR_COLLAPSED_ROWS)
  /\ dayEventsPerDay = [i \in 0..6 |-> <<>>]
  /\ dayOverflowCounts = [i \in 0..6 |-> 0]

ColumnIdle ==
  /\ colEvents = <<>>
  /\ colSortedEvents = <<>>
  /\ colEventGroups = <<>>
  /\ colGroupOverflow = <<>>
  /\ colDayOverflow = 0
  /\ colPc = "mount"

CalendarIdle ==
  /\ calView = "month"
  /\ calDate = Instant(0, 0)
  /\ calHandlers = [onDateTimeChange |-> FALSE, onViewChange |-> FALSE]
  /\ calPressed = Null
  /\ calCalls = <<>>

SwipeIdle ==
  /\ swipeEnabled = TRUE
  /\ panHandledRef = FALSE
  /\ swipePc = "idle"
  /\ swipeMove = Null
  /\ swipeCalls = <<>>
  /\ swipeGestures = 0

ScrollViews == {"header", "content"}

SyncIdle ==
  /\ isHeaderScrolling = FALSE
  /\ isContentScrolling = FALSE
  /\ headerScrollX = 0
  /\ contentScrollX = 0
  /\ scrollOffset = [v \in ScrollViews |-> 0]
  /\ scrollPhase = [v \in ScrollViews |-> "rest"]
  /\ scrollEcho = [v \in ScrollViews |-> Null]
  /\ syncLast = Null

ScrollIdle ==
  /\ scrollTarget = Instant(0, 0)
  /\ autoScrollToNow = FALSE
  /\ minutesSinceStartOfDay = 0
  /\ hasAutoScrolledRef = FALSE
  /\ hasScrolledToTimeRef = FALSE
  /\ timeFrame = Null
  /\ autoFrame = Null
  /\ verticalScrolls = <<>>

\* the hooks and the Calendar before anything is mounted
UiIdle == CalendarIdle /\ SwipeIdle /\ SyncIdle /\ ScrollIdle

RowsIdle ==
  /\ rowPositions = <<>>
  /\ rowLimit = 1
  /\ rowResult = <<>>
  /\ rowDone = FALSE

DayIdle ==
  /\ dayEvent = [eventId |-> <<50>>, start |-> Instant(0, 0), end |-> Instant(0, 0)]
  /\ dayTarget = Instant(0, 0)
  /\ dayHourHeight = HOUR_HEIGHT
  /\ dayViewed = <<>>
  /\ dayPositions = <<>>
  /\ dayPc = "filter"
  /\ dayProperties = [available |-> <<>>, toShow |-> Null]
  /\ eventsByProperty = <<>>

\* the date MonthView shows in the cell idx of the week weekIndex:
\* target.startOf("month").startOf("week").add(weekIndex * 7 + idx, "day")
shownDate(tgt, weekIndex, idx) ==
  addDays(startOf(Instant(tgt.first, 0), "week"), weekIndex * 7 + idx)

\* the EventBars of the render, with no guard on the width
barsOfAnyWidth(width, byWeek) ==
  UNION {{byWeek[w][k] : k \in {j \in 1..Len(byWeek[w]) : byWeek[w][j].isVisible}} :
           w \in DOMAIN byWeek}

\* the EventBars of the render: calendarWidth > 0 && the visible positions
\* of each week
eventBars(width, byWeek) ==
  IF width > 0
  THEN UNION {{byWeek[w][k] : k \in {j \in 1..Len(byWeek[w]) : byWeek[w][j].isVisible}} :
                w \in DOMAIN byWeek}
  ELSE {}

\* the first render
InitMonth ==
  /\ UiIdle
  /\ RowsIdle
  /\ DayIdle
  /\ WeekIdle
  /\ ColumnIdle
  /\ events \in EventLists
  /\ target \in Months
  /\ calendarWidth \in {0, 350}
  /\ maxVisibleRows \in RowLimits
  /\ eventPositions = computeEventPositions(events, target, calendarWidth)
  /\ positionsByWeek = assignGlobalRows(eventPositions, maxVisibleRows)
  /\ overflowByDay = calculateOverflowByDay(eventPositions, calendarize(target),
                                             target, maxVisibleRows)

\* onLayout: setCalendarWidth(layout.width), then the render it causes
OnLayout(width) ==
  /\ width # calendarWidth
  /\ calendarWidth' = width
  /\ Render(events, target, width, maxVisibleRows)
  /\ UNCHANGED <<events, target, maxVisibleRows>>
  /\ UNCHANGED notMonthVars

\* handleSwipeLeft: onMonthChange(next month); the parent passes it back as
\* targetDate
SwipeLeft ==
  /\ target = PrevMonth
  /\ target' = ThisMonth
  /\ Render(events, ThisMonth, calendarWidth, maxVisibleRows)
  /\ UNCHANGED <<events, calendarWidth, maxVisibleRows>>
  /\ UNCHANGED notMonthVars

\* handleSwipeRight: onMonthChange(previous month)
SwipeRight ==
  /\ target = ThisMonth
  /\ target' = PrevMonth
  /\ Render(events, PrevMonth, calendarWidth, maxVisibleRows)
  /\ UNCHANGED <<events, calendarWidth, maxVisibleRows>>
  /\ UNCHANGED notMonthVars

NextMonth ==
  \/ \E width \in CalendarWidths : OnLayout(width)
  \/ SwipeLeft
  \/ SwipeRight

\* ----------------------------------------------------- assignGlobalRows alone

\* positions as getMultiDayPosition returns them (row 0, visible), of events
\* with the three eventIds in weeks 0 and 1
RowInputs ==
  {[event |-> [eventId |-> id, start |-> Instant(37, 0), end |-> Instant(42, 0)],
    left |-> 0, width |-> MIN_WIDTH * PxScale, row |-> 0, weekIndex |-> w,
    isVisible |-> TRUE, isFirstWeek |-> (w = 0), isLastWeek |-> (w = 1)] :
     id \in EventIds, w \in 0..1}

MonthIdle ==
  /\ events = <<>>
  /\ target = ThisMonth
  /\ calendarWidth = 0
  /\ maxVisibleRows = 1
  /\ eventPositions = <<>>
  /\ positionsByWeek = <<>>
  /\ overflowByDay = <<>>

InitRows ==
  /\ UiIdle
  /\ MonthIdle
  /\ DayIdle
  /\ WeekIdle
  /\ ColumnIdle
  /\ rowPositions \in SeqsUpTo(RowInputs, MaxPositions)
  /\ rowLimit \in RowLimits
  /\ rowResult = <<>>
  /\ rowDone = FALSE

\* the call assignGlobalRows(eventPositions, maxVisibleRows)
RowsAssign ==
  /\ ~rowDone
  /\ rowResult' = assignGlobalRows(rowPositions, rowLimit)
  /\ rowDone' = TRUE
  /\ UNCHANGED <<rowPositions, rowLimit>>
  /\ UNCHANGED notRowVars

\* a relayout with the same positions in another order: two neighbours swapped
RowsReorder ==
  /\ rowDone
  /\ \E i \in 1..(Len(rowPositions) - 1) :
       /\ rowPositions[i] # rowPositions[i + 1]
       /\ rowPositions' = [rowPositions EXCEPT ![i] = rowPositions[i + 1],
                                               ![i + 1] = rowPositions[i]]
  /\ rowResult' = <<>>
  /\ rowDone' = FALSE
  /\ UNCHANGED rowLimit
  /\ UNCHANGED notRowVars

NextRows == RowsAssign \/ RowsReorder

\* ------------------------------------------------------------------ DayView

\* Times of day: 00:00, 00:05, 10:00, 23:50, 23:59:30
DayTimes == {0, 5 * MsPerMinute, 10 * MsPerHour, 23 * MsPerHour + 50 * MsPerMinute,
             23 * MsPerHour + 59 * MsPerMinute + 30 * 1000}

DayInstants == {Instant(d, ms) : d \in 34..36, ms \in DayTimes}

DayEvents == {[eventId |-> <<50>>, start |-> s, end |-> e] :
                s \in DayInstants, e \in DayInstants}

\* targetDate carries a time of day
DayTargets == {Instant(d, ms) : d \in 34..36, ms \in {0, 10 * MsPerHour}}

HourHeights == {HOUR_HEIGHT, HOUR_HEIGHT \div 2}

\* availableProperties and propertiesToShow (Null when not given), as lists
\* of property ids
DayProperties == {[available |-> <<2>>, toShow |-> Null],
                  [available |-> <<2, 5>>, toShow |-> <<5, 2>>]}

InitDay ==
  /\ UiIdle
  /\ MonthIdle
  /\ RowsIdle
  /\ WeekIdle
  /\ ColumnIdle
  /\ dayEvent \in DayEvents
  /\ dayTarget \in DayTargets
  /\ dayHourHeight \in HourHeights
  /\ dayViewed = <<>>
  /\ dayPositions = <<>>
  /\ dayPc = "filter"
  /\ dayProperties \in DayProperties
  /\ eventsByProperty = <<>>

\* the eventsByProperty memo: getEventsForDate(events, targetDate), grouped
\* by groupEventsByProperty
DayFilter ==
  /\ dayPc = "filter"
  /\ dayViewed' = getEventsForDate(<<dayEvent>>, dayTarget)
  /\ eventsByProperty' = groupEventsByProperty(dayViewed', dayProperties.available,
                                                dayProperties.toShow)
  /\ dayPositions' = <<>>
  /\ dayPc' = "position"
  /\ UNCHANGED <<dayEvent, dayTarget, dayHourHeight, dayProperties>>
  /\ UNCHANGED notDayVars

\* PropertyLane: getEventPosition(event, hourHeight, targetDate) for each
\* event of the day
DayPosition ==
  /\ dayPc = "position"
  /\ dayPositions' = [i \in 1..Len(laneEvents(eventsByProperty)) |->
                        getEventPosition(laneEvents(eventsByProperty)[i],
                                         dayHourHeight, dayTarget)]
  /\ dayPc' = "shown"
  /\ UNCHANGED <<dayEvent, dayTarget, dayHourHeight, dayViewed, dayProperties,
                 eventsByProperty>>
  /\ UNCHANGED notDayVars

\* the targetDate prop changes to another day
DayChangeDate(date) ==
  /\ dayPc = "shown"
  /\ date.d # dayTarget.d
  /\ dayTarget' = date
  /\ dayViewed' = <<>>
  /\ dayPositions' = <<>>
  /\ dayPc' = "filter"
  /\ eventsByProperty' = <<>>
  /\ UNCHANGED <<dayEvent, dayHourHeight, dayProperties>>
  /\ UNCHANGED notDayVars

NextDay ==
  \/ DayFilter
  \/ DayPosition
  \/ \E date \in DayTargets : DayChangeDate(date)

\* ----------------------------------------------------------------- WeekView

\* the intervals of the Week view's events; the week shown first is days
\* 35..41 (Sunday to Saturday)
WeekIntervals == [
  sunToTue |-> <<Instant(35, 10 * MsPerHour), Instant(37, 14 * MsPerHour)>>,
  friToSat |-> <<Instant(40, 10 * MsPerHour), Instant(41, 14 * MsPerHour)>>,
  saturday |-> <<Instant(41, 10 * MsPerHour), Instant(41, 14 * MsPerHour)>>,
  toThuMidnight |-> <<Instant(38, 10 * MsPerHour), Instant(39, 0)>>,
  toWeekStart |-> <<Instant(34, 10 * MsPerHour), Instant(35, 0)>> ]

weekEvent(eventId, type, interval) ==
  [eventId |-> eventId, type |-> type,
   start |-> WeekIntervals[interval][1], end |-> WeekIntervals[interval][2]]

(* Events of the eventIds "entity-2", "entity-5", "entity-10", and of       *)
(* "entity-02" (the entity 2 again) and "entity-x" (no entity id).          *)
WeekEventSet ==
  {weekEvent(<<50>>, "property", "sunToTue"),
   weekEvent(<<50>>, "property", "friToSat"),
   weekEvent(<<53>>, "property", "sunToTue"),
   weekEvent(<<49, 48>>, "property", "friToSat"),
   weekEvent(<<49, 48>>, "property", "saturday")}
  \cup {weekEvent(<<50>>, "cleaning", "toThuMidnight"),
        weekEvent(<<53>>, "service", "toWeekStart"),
        weekEvent(<<53>>, "unassigned", "sunToTue"),
        weekEvent(<<48, 50>>, "otherService", "friToSat"),
        weekEvent(<<120>>, "property", "sunToTue")}

\* event.id: each event of a list has its own
withIds(evs) ==
  [i \in 1..Len(evs) |->
     [id |-> i, eventId |-> evs[i].eventId, type |-> evs[i].type,
      start |-> evs[i].start, end |-> evs[i].end]]

WeekEventLists == {withIds(evs) : evs \in SeqsUpTo(WeekEventSet, MaxEvents)}

\* targetDate: a Tuesday morning and the Monday of the week after
WeekTargets == {Instant(37, 10 * MsPerHour), Instant(43, 0)}

\* the visiblePropertyIds memo
visiblePropertyIds(visibleIndicators) ==
  {visibleIndicators[k].propertyId : k \in 1..Len(visibleIndicators)}

\* the dayEventsPerDay memo
computeDayEventsPerDay(weekStart, evsOfWeek, expanded, visibleIds) ==
  [i \in 0..6 |->
     LET allDay == getEventsForDay(evsOfWeek, addDays(weekStart, i))
     IN  IF expanded THEN allDay
         ELSE SelectSeq(allDay, LAMBDA e :
                /\ extractPropertyId(e) # Null
                /\ extractPropertyId(e).id \in visibleIds)]

\* one render of WeekView: its memos
WeekRender(evs, tgt, expanded) ==
  LET weekStart == getWeekBoundaries(tgt)
      evsOfWeek == getEventsForWeek(evs, weekStart)
      withRows == getPropertyIndicatorsWithRows(getPropertyIndicatorData(evsOfWeek, weekStart))
      limit == getWeekVisibleLimit(expanded, maxRowOf(withRows))
      split == splitVisibleAndOverflow(withRows, limit)
      perDay == computeDayEventsPerDay(weekStart, evsOfWeek, expanded,
                                       visiblePropertyIds(split.visibleIndicators))
  IN  /\ weekEvents' = evsOfWeek
      /\ propertyIndicatorsWithRows' = withRows
      /\ weekVisibleLimit' = limit
      /\ weekSplit' = split
      /\ dayEventsPerDay' = perDay
      /\ dayOverflowCounts' = [i \in 0..6 |-> calculateDayOverflow(perDay[i])]

\* the first render: expandedWeek is false
InitWeek ==
  /\ UiIdle
  /\ MonthIdle
  /\ RowsIdle
  /\ DayIdle
  /\ ColumnIdle
  /\ wkEvents \in WeekEventLists
  /\ wkTarget \in WeekTargets
  /\ expandedWeek = FALSE
  /\ LET weekStart == getWeekBoundaries(wkTarget)
     IN  /\ weekEvents = getEventsForWeek(wkEvents, weekStart)
         /\ propertyIndicatorsWithRows =
              getPropertyIndicatorsWithRows(getPropertyIndicatorData(weekEvents, weekStart))
         /\ weekVisibleLimit = getWeekVisibleLimit(FALSE, maxRowOf(propertyIndicatorsWithRows))
         /\ weekSplit = splitVisibleAndOverflow(propertyIndicatorsWithRows, weekVisibleLimit)
         /\ dayEventsPerDay =
              computeDayEventsPerDay(weekStart, weekEvents, FALSE,
                                     visiblePropertyIds(weekSplit.visibleIndicators))
         /\ dayOverflowCounts = [i \in 0..6 |-> calculateDayOverflow(dayEventsPerDay[i])]

\* onToggleExpanded: setExpandedWeek((v) => !v), then the render
WeekToggleExpanded ==
  /\ expandedWeek' = ~expandedWeek
  /\ WeekRender(wkEvents, wkTarget, ~expandedWeek)
  /\ UNCHANGED <<wkEvents, wkTarget>>
  /\ UNCHANGED notWeekVars

\* the targetDate prop changes, then the render
WeekChangeDate(date) ==
  /\ date # wkTarget
  /\ wkTarget' = date
  /\ WeekRender(wkEvents, date, expandedWeek)
  /\ UNCHANGED <<wkEvents, expandedWeek>>
  /\ UNCHANGED notWeekVars

NextWeek ==
  \/ WeekToggleExpanded
  \/ \E date \in WeekTargets : WeekChangeDate(date)

\* ---------------------------------------------------------------- DayColumn

\* the most events of one day's column
MaxColumnEvents == 4

\* the day of the column, and the hours at which its events start and end
ColumnDay == 36
ColumnHours == {9, 10, 11, 12, 13}

\* events with start < end within the day
ColumnEventSet ==
  {[eventId |-> <<50>>, type |-> "property",
    start |-> Instant(ColumnDay, a * MsPerHour), end |-> Instant(ColumnDay, b * MsPerHour)] :
     <<a, b>> \in {h \in ColumnHours \X ColumnHours : h[1] < h[2]}}

ColumnEventLists == {withIds(evs) : evs \in SeqsUpTo(ColumnEventSet, MaxColumnEvents)}

\* the events prop and the parent's overflow count of the day; the column
\* has not rendered yet
InitColumn ==
  /\ UiIdle
  /\ MonthIdle
  /\ RowsIdle
  /\ DayIdle
  /\ WeekIdle
  /\ colEvents \in ColumnEventLists
  /\ colSortedEvents = <<>>
  /\ colEventGroups = <<>>
  /\ colGroupOverflow = <<>>
  /\ colDayOverflow = calculateDayOverflow(colEvents)
  /\ colPc = "mount"

\* one render of DayColumn with the events prop evs: the sortedEvents and
\* eventGroups memos and the overflow of each group
ColumnMemos(evs) ==
  /\ colSortedEvents' = sortedEvents(evs)
  /\ colEventGroups' = eventGroups(colSortedEvents')
  /\ colGroupOverflow' = [g \in 1..Len(colEventGroups') |->
                            groupOverflow(colEventGroups'[g], evs)]

\* the first render of the column
ColumnRender ==
  /\ colPc = "mount"
  /\ ColumnMemos(colEvents)
  /\ colPc' = "rendered"
  /\ UNCHANGED <<colEvents, colDayOverflow>>
  /\ UNCHANGED notColVars

\* the parent renders with the day's events in another order (the first two
\* change places), and the column renders again
ColumnReorder ==
  /\ colPc = "rendered"
  /\ Len(colEvents) >= 2
  /\ colEvents' = [k \in 1..Len(colEvents) |->
                     IF k = 1 THEN colEvents[2]
                     ELSE IF k = 2 THEN colEvents[1] ELSE colEvents[k]]
  /\ colDayOverflow' = calculateDayOverflow(colEvents')
  /\ ColumnMemos(colEvents')
  /\ UNCHANGED colPc
  /\ UNCHANGED notColVars

NextColumn == ColumnRender \/ ColumnReorder

\* ------------------------------------------------------------------ Calendar

\* the views before anything is mounted
ViewsIdle == MonthIdle /\ RowsIdle /\ DayIdle /\ WeekIdle /\ ColumnIdle

\* the events prop: "entity-2" Sunday to Tuesday, "entity-5" Friday to
\* Saturday and "entity-10" on Saturday
calEvents ==
  withIds(<<weekEvent(<<50>>, "property", "sunToTue"),
            weekEvent(<<53>>, "property", "friToSat"),
            weekEvent(<<49, 48>>, "property", "saturday")>>)

\* the availableProperties prop
calProperties == <<2, 5, 10>>

CalendarViews == {"month", "week", "day"}

\* the date prop of the first render
CalendarDates == {Instant(37, 10 * MsPerHour), Instant(41, 0)}

\* the month of the grid MonthView shows for the date
monthShown(date) == IF date.d < ThisMonth.first THEN PrevMonth ELSE ThisMonth

\* the events the view renders a pressable bar or block for
monthViewEvents(date) ==
  LET positions == computeEventPositions(calEvents, monthShown(date), 350)
  IN  {positions[k].event : k \in 1..Len(positions)}

weekViewEvents(date) ==
  LET weekStart == getWeekBoundaries(date)
      evsOfWeek == getEventsForWeek(calEvents, weekStart)
      withRows == getPropertyIndicatorsWithRows(getPropertyIndicatorData(evsOfWeek, weekStart))
      split == splitVisibleAndOverflow(withRows, getWeekVisibleLimit(FALSE, maxRowOf(withRows)))
      perDay == computeDayEventsPerDay(weekStart, evsOfWeek, FALSE,
                                       visiblePropertyIds(split.visibleIndicators))
  IN  UNION {{perDay[i][k] : k \in 1..Len(perDay[i])} : i \in 0..6}

dayViewEvents(date) ==
  LET lanes == laneEvents(groupEventsByProperty(getEventsForDate(calEvents, date),
                                                calProperties, Null))
  IN  {lanes[k] : k \in 1..Len(lanes)}

\* handleDateTimeChange: the props it calls, in order
handleDateTimeChange(dateTime) ==
  <<IF calHandlers.onDateTimeChange
    THEN [fn |-> "onDateTimeChange", date |-> dateTime]
    ELSE [fn |-> "onDateChange", date |-> dateTime]>>
  \o (IF calHandlers.onViewChange THEN <<[fn |-> "onViewChange", view |-> "day"]>>
      ELSE <<>>)

(* The parent owns the view and the date: onDateChange and onDateTimeChange *)
(* set the date prop, onViewChange sets the view prop.                      *)
parentConsumes(calls) ==
  /\ calCalls' = calls
  /\ calDate' = IF \E k \in 1..Len(calls) : calls[k].fn \in {"onDateChange", "onDateTimeChange"}
                THEN (CHOOSE c \in {calls[k] : k \in 1..Len(calls)} :
                        c.fn \in {"onDateChange", "onDateTimeChange"}).date
                ELSE calDate
  /\ calView' = IF \E k \in 1..Len(calls) : calls[k].fn = "onViewChange" THEN "day"
                ELSE calView

InitCalendar ==
  /\ ViewsIdle
  /\ ScrollIdle
  /\ SwipeIdle
  /\ SyncIdle
  /\ calView = "month"
  /\ calDate \in CalendarDates
  /\ calHandlers \in [onDateTimeChange : BOOLEAN, onViewChange : BOOLEAN]
  /\ calPressed = Null
  /\ calCalls = <<>>

\* a bar of MonthView is pressed: handleMonthViewEventPress
PressMonthViewEvent(event) ==
  /\ calView = "month"
  /\ event \in monthViewEvents(calDate)
  /\ calPressed' = [view |-> "month", event |-> event]
  /\ parentConsumes(handleDateTimeChange(event.start))
  /\ UNCHANGED calHandlers
  /\ UNCHANGED notCalVars

\* a block of WeekView is pressed: handleWeekViewEventPress
PressWeekViewEvent(event) ==
  /\ calView = "week"
  /\ event \in weekViewEvents(calDate)
  /\ calPressed' = [view |-> "week", event |-> event]
  /\ parentConsumes(handleDateTimeChange(event.start))
  /\ UNCHANGED calHandlers
  /\ UNCHANGED notCalVars

\* a block of DayView is pressed: the onEventPress prop is passed through
PressDayViewEvent(event) ==
  /\ calView = "day"
  /\ event \in dayViewEvents(calDate)
  /\ calPressed' = [view |-> "day", event |-> event]
  /\ parentConsumes(<<[fn |-> "onEventPress", event |-> event]>>)
  /\ UNCHANGED calHandlers
  /\ UNCHANGED notCalVars

\* the parent renders the Calendar with another view prop
CalendarSetView(view) ==
  /\ view # calView
  /\ calView' = view
  /\ UNCHANGED <<calDate, calHandlers, calPressed, calCalls>>
  /\ UNCHANGED notCalVars

NextCalendar ==
  \/ \E event \in {calEvents[k] : k \in 1..Len(calEvents)} : PressMonthViewEvent(event)
  \/ \E event \in {calEvents[k] : k \in 1..Len(calEvents)} : PressWeekViewEvent(event)
  \/ \E event \in {calEvents[k] : k \in 1..Len(calEvents)} : PressDayViewEvent(event)
  \/ \E view \in CalendarViews : CalendarSetView(view)

\* ------------------------------------------------------------ useSwipeGesture

DEFAULT_SWIPE_THRESHOLD == 50

\* the gestures begun in a run, and the callbacks recorded during one
MaxGestures == 2
MaxSwipeCalls == 3

\* gestureState.dx and gestureState.dy: around and at the threshold
Displacements == {-51, -50, -10, 0, 10, 50, 51}

\* Math.abs(dx / dy) > 1: the quotient is Infinity when only dy is 0 and
\* NaN when both are
absRatioAboveOne(dx, dy) ==
  IF dy = 0 THEN dx # 0
  ELSE (IF dx < 0 THEN -dx ELSE dx) > (IF dy < 0 THEN -dy ELSE dy)

\* onMoveShouldSetPanResponder, with both swipe callbacks given
onMoveShouldSetPanResponder(enabled, dx, dy) ==
  IF ~enabled THEN FALSE ELSE absRatioAboveOne(dx, dy)

\* onPanResponderMove when the handled flag is not looked at
moveIgnoringHandled(handled, threshold, dx, dy) ==
  IF dy < -1 * threshold \/ threshold < dy
  THEN [called |-> <<>>, handled |-> handled]
  ELSE IF dx < -1 * threshold THEN [called |-> <<"onSwipeLeft">>, handled |-> TRUE]
  ELSE IF dx > threshold THEN [called |-> <<"onSwipeRight">>, handled |-> TRUE]
  ELSE [called |-> <<>>, handled |-> handled]

\* onPanResponderMove: the callbacks it calls and panHandledRef.current
\* after it
onPanResponderMove(handled, threshold, dx, dy) ==
  IF dy < -1 * threshold \/ threshold < dy \/ handled
  THEN [called |-> <<>>, handled |-> handled]
  ELSE IF dx < -1 * threshold THEN [called |-> <<"onSwipeLeft">>, handled |-> TRUE]
  ELSE IF dx > threshold THEN [called |-> <<"onSwipeRight">>, handled |-> TRUE]
  ELSE [called |-> <<>>, handled |-> handled]

InitSwipe ==
  /\ ViewsIdle
  /\ ScrollIdle
  /\ CalendarIdle
  /\ SyncIdle
  /\ swipeEnabled \in BOOLEAN
  /\ panHandledRef = FALSE
  /\ swipePc = "idle"
  /\ swipeMove = Null
  /\ swipeCalls = <<>>
  /\ swipeGestures = 0

\* a finger goes down: a gesture begins
TouchStart ==
  /\ swipePc = "idle"
  /\ swipeGestures < MaxGestures
  /\ swipePc' = "touching"
  /\ swipeGestures' = swipeGestures + 1
  /\ swipeMove' = Null
  /\ swipeCalls' = <<>>
  /\ UNCHANGED <<swipeEnabled, panHandledRef>>
  /\ UNCHANGED notSwipeVars

\* a move before the view is the responder: onMoveShouldSetPanResponder
MoveShouldSet(dx, dy) ==
  /\ swipePc = "touching"
  /\ swipePc' = IF onMoveShouldSetPanResponder(swipeEnabled, dx, dy) THEN "responder"
                ELSE "touching"
  /\ UNCHANGED <<swipeEnabled, panHandledRef, swipeMove, swipeCalls, swipeGestures>>
  /\ UNCHANGED notSwipeVars

\* a move while the view is the responder: onPanResponderMove
PanResponderMove(dx, dy) ==
  /\ swipePc = "responder"
  /\ Len(swipeCalls) < MaxSwipeCalls
  /\ LET move == onPanResponderMove(panHandledRef, DEFAULT_SWIPE_THRESHOLD, dx, dy)
     IN  /\ panHandledRef' = move.handled
         /\ swipeCalls' = swipeCalls \o move.called
         /\ swipeMove' = [dx |-> dx, dy |-> dy, called |-> move.called,
                          handledBefore |-> panHandledRef]
  /\ UNCHANGED <<swipeEnabled, swipePc, swipeGestures>>
  /\ UNCHANGED notSwipeVars

\* the finger is lifted while the view is the responder: onPanResponderEnd
PanResponderEnd ==
  /\ swipePc = "responder"
  /\ panHandledRef' = FALSE
  /\ swipePc' = "idle"
  /\ UNCHANGED <<swipeEnabled, swipeMove, swipeCalls, swipeGestures>>
  /\ UNCHANGED notSwipeVars

\* the finger is lifted before the view became the responder: no handler
TouchEnd ==
  /\ swipePc = "touching"
  /\ swipePc' = "idle"
  /\ UNCHANGED <<swipeEnabled, panHandledRef, swipeMove, swipeCalls, swipeGestures>>
  /\ UNCHANGED notSwipeVars

NextSwipe ==
  \/ TouchStart
  \/ \E dx \in Displacements, dy \in Displacements : MoveShouldSet(dx, dy)
  \/ \E dx \in Displacements, dy \in Displacements : PanResponderMove(dx, dy)
  \/ PanResponderEnd
  \/ TouchEnd

\* --------------------------------------------------- useScrollSynchronization

\* the horizontal offsets are 0..MaxOffset
MaxOffset == 2
Offsets == 0..MaxOffset

(* scrollTo(ref, x, 0, false): the view jumps to x; if that moves it, it    *)
(* will emit a scroll event with the offset x.                              *)
scrollTo(view, x, offsets, echoes) ==
  [offsets |-> [offsets EXCEPT ![view] = x],
   echoes |-> [echoes EXCEPT ![view] = IF offsets[view] # x THEN [x |-> x]
                                       ELSE echoes[view]]]

\* handleHeaderScroll.onScroll for a scroll event of the header at offset x;
\* `kind` tells a user's scroll from the event a scrollTo caused
headerOnScroll(x, kind, offsets, echoes) ==
  IF isContentScrolling
  THEN /\ scrollOffset' = offsets
       /\ scrollEcho' = echoes
       /\ syncLast' = [view |-> "header", kind |-> kind, scrollTo |-> FALSE]
       /\ UNCHANGED <<isHeaderScrolling, headerScrollX>>
  ELSE /\ isHeaderScrolling' = TRUE
       /\ headerScrollX' = x
       /\ scrollOffset' = scrollTo("content", x, offsets, echoes).offsets
       /\ scrollEcho' = scrollTo("content", x, offsets, echoes).echoes
       /\ syncLast' = [view |-> "header", kind |-> kind, scrollTo |-> TRUE]

\* handleContentScroll.onScroll for a scroll event of the content at offset x
contentOnScroll(x, kind, offsets, echoes) ==
  IF isHeaderScrolling
  THEN /\ scrollOffset' = offsets
       /\ scrollEcho' = echoes
       /\ syncLast' = [view |-> "content", kind |-> kind, scrollTo |-> FALSE]
       /\ UNCHANGED <<isContentScrolling, contentScrollX>>
  ELSE /\ isContentScrolling' = TRUE
       /\ contentScrollX' = x
       /\ scrollOffset' = scrollTo("header", x, offsets, echoes).offsets
       /\ scrollEcho' = scrollTo("header", x, offsets, echoes).echoes
       /\ syncLast' = [view |-> "content", kind |-> kind, scrollTo |-> TRUE]

InitSync ==
  /\ ViewsIdle
  /\ ScrollIdle
  /\ CalendarIdle
  /\ SwipeIdle
  /\ SyncIdle

\* the user puts a finger on a view that is at rest and starts to drag it
BeginDrag(view) ==
  /\ scrollPhase[view] = "rest"
  /\ scrollPhase' = [scrollPhase EXCEPT ![view] = "drag"]
  /\ UNCHANGED <<isHeaderScrolling, isContentScrolling, headerScrollX, contentScrollX,
                 scrollOffset, scrollEcho, syncLast>>
  /\ UNCHANGED notSyncVars

\* the user's drag or its momentum moves the header to x: onScroll
HeaderUserScroll(x) ==
  /\ scrollPhase["header"] # "rest"
  /\ x # scrollOffset["header"]
  /\ headerOnScroll(x, "user", [scrollOffset EXCEPT !["header"] = x], scrollEcho)
  /\ UNCHANGED <<isContentScrolling, contentScrollX, scrollPhase>>
  /\ UNCHANGED notSyncVars

\* the scroll event that a scrollTo on the header caused: onScroll
HeaderEcho ==
  /\ scrollEcho["header"] # Null
  /\ headerOnScroll(scrollEcho["header"].x, "echo", scrollOffset,
                    [scrollEcho EXCEPT !["header"] = Null])
  /\ UNCHANGED <<isContentScrolling, contentScrollX, scrollPhase>>
  /\ UNCHANGED notSyncVars

\* the user lifts the finger off the header, which stops or goes on by
\* momentum: onEndDrag
HeaderEndDrag(momentum) ==
  /\ scrollPhase["header"] = "drag"
  /\ isHeaderScrolling' = FALSE
  /\ scrollPhase' = [scrollPhase EXCEPT !["header"] = IF momentum THEN "momentum" ELSE "rest"]
  /\ UNCHANGED <<isContentScrolling, headerScrollX, contentScrollX,
                 scrollOffset, scrollEcho, syncLast>>
  /\ UNCHANGED notSyncVars

\* the momentum of the header ends: onMomentumEnd
HeaderMomentumEnd ==
  /\ scrollPhase["header"] = "momentum"
  /\ isHeaderScrolling' = FALSE
  /\ scrollPhase' = [scrollPhase EXCEPT !["header"] = "rest"]
  /\ UNCHANGED <<isContentScrolling, headerScrollX, contentScrollX,
                 scrollOffset, scrollEcho, syncLast>>
  /\ UNCHANGED notSyncVars

\* the user's drag or its momentum moves the content to x: onScroll
ContentUserScroll(x) ==
  /\ scrollPhase["content"] # "rest"
  /\ x # scrollOffset["content"]
  /\ contentOnScroll(x, "user", [scrollOffset EXCEPT !["content"] = x], scrollEcho)
  /\ UNCHANGED <<isHeaderScrolling, headerScrollX, scrollPhase>>
  /\ UNCHANGED notSyncVars

\* the scroll event that a scrollTo on the content caused: onScroll
ContentEcho ==
  /\ scrollEcho["content"] # Null
  /\ contentOnScroll(scrollEcho["content"].x, "echo", scrollOffset,
                     [scrollEcho EXCEPT !["content"] = Null])
  /\ UNCHANGED <<isHeaderScrolling, headerScrollX, scrollPhase>>
  /\ UNCHANGED notSyncVars

\* onEndDrag of the content
ContentEndDrag(momentum) ==
  /\ scrollPhase["content"] = "drag"
  /\ isContentScrolling' = FALSE
  /\ scrollPhase' = [scrollPhase EXCEPT !["content"] = IF momentum THEN "momentum" ELSE "rest"]
  /\ UNCHANGED <<isHeaderScrolling, headerScrollX, contentScrollX,
                 scrollOffset, scrollEcho, syncLast>>
  /\ UNCHANGED notSyncVars

\* onMomentumEnd of the content
ContentMomentumEnd ==
  /\ scrollPhase["content"] = "momentum"
  /\ isContentScrolling' = FALSE
  /\ scrollPhase' = [scrollPhase EXCEPT !["content"] = "rest"]
  /\ UNCHANGED <<isHeaderScrolling, headerScrollX, contentScrollX,
                 scrollOffset, scrollEcho, syncLast>>
  /\ UNCHANGED notSyncVars

NextSync ==
  \/ \E view \in ScrollViews : BeginDrag(view)
  \/ \E x \in Offsets : HeaderUserScroll(x)
  \/ HeaderEcho
  \/ \E momentum \in BOOLEAN : HeaderEndDrag(momentum)
  \/ HeaderMomentumEnd
  \/ \E x \in Offsets : ContentUserScroll(x)
  \/ ContentEcho
  \/ \E momentum \in BOOLEAN : ContentEndDrag(momentum)
  \/ ContentMomentumEnd

\* ------------------------------------------------- DayView: vertical scroll

SCROLL_BUFFER_PX == 120

\* the clock ticks and the scrolls recorded in a run
MaxTicks == 3
MaxScrolls == 3

\* useNowIndicator: today, and minutesSinceStartOfDay when DayView mounts
NowDay == 37
NowMinutes == 10 * 60

\* targetDate: today or tomorrow, at 00:00, 00:00:30, 10:00 or 14:00
ScrollTargets ==
  {Instant(d, ms) : d \in {NowDay, NowDay + 1},
                    ms \in {0, 30 * 1000, 10 * MsPerHour, 14 * MsPerHour}}

\* (minutes / 60) * HOUR_HEIGHT, in thirds of a pixel
scrollPx(minutes) == (minutes * HOUR_HEIGHT * 3) \div 60

\* totalHeight, in thirds of a pixel
scrollTotalHeight == HOUR_HEIGHT * HOURS_IN_DAY * 3

\* isTodayHelper(targetDate)
showNowIndicator(targetDate) == targetDate.d = NowDay

\* the nowIndicatorTop memo: Null or the top
nowIndicatorTop(targetDate, minutes) ==
  IF ~showNowIndicator(targetDate) THEN Null
  ELSE [top |-> Min(scrollPx(minutes), scrollTotalHeight - 3)]

\* the autoScrollOffset memo
autoScrollOffset(targetDate, minutes) ==
  IF ~showNowIndicator(targetDate) \/ nowIndicatorTop(targetDate, minutes) = Null THEN 0
  ELSE Max(nowIndicatorTop(targetDate, minutes).top - SCROLL_BUFFER_PX * 3, 0)

\* the scrollToTimeOffset memo: Null when targetDate has no hours and no
\* minutes
scrollToTimeOffset(targetDate) ==
  LET minutesSinceStart == targetDate.ms \div MsPerMinute
  IN  IF minutesSinceStart = 0 THEN Null
      ELSE [y |-> Max(0, Min(scrollPx(minutesSinceStart) - SCROLL_BUFFER_PX * 3,
                             scrollTotalHeight - 3))]

\* the dependencies of the auto-scroll effect
autoScrollDeps(targetDate, minutes, auto) ==
  <<auto, showNowIndicator(targetDate), autoScrollOffset(targetDate, minutes),
    nowIndicatorTop(targetDate, minutes), scrollToTimeOffset(targetDate)>>

\* the scroll-to-time effect: the animation frame it requests, if any
scrollToTimeEffect(offset, scrolledToTime) ==
  IF offset = Null \/ scrolledToTime THEN Null ELSE [y |-> offset.y]

\* the auto-scroll effect: the animation frame it requests, if any
autoScrollEffect(targetDate, minutes, auto, autoScrolled, scrolledToTime) ==
  IF \/ ~auto
     \/ ~showNowIndicator(targetDate)
     \/ autoScrolled
     \/ scrolledToTime
     \/ nowIndicatorTop(targetDate, minutes) = Null
     \/ scrollToTimeOffset(targetDate) # Null
  THEN Null
  ELSE [y |-> autoScrollOffset(targetDate, minutes)]

\* DayView is mounted: the three effects run
InitScroll ==
  /\ ViewsIdle
  /\ CalendarIdle
  /\ SwipeIdle
  /\ SyncIdle
  /\ scrollTarget \in ScrollTargets
  /\ autoScrollToNow \in BOOLEAN
  /\ minutesSinceStartOfDay = NowMinutes
  /\ hasAutoScrolledRef = FALSE
  /\ hasScrolledToTimeRef = FALSE
  /\ timeFrame = scrollToTimeEffect(scrollToTimeOffset(scrollTarget), FALSE)
  /\ autoFrame = autoScrollEffect(scrollTarget, minutesSinceStartOfDay, autoScrollToNow,
                                  FALSE, FALSE)
  /\ verticalScrolls = <<>>

(* The parent renders with another targetDate. The effects whose            *)
(* dependencies changed are cleaned up (their frame is cancelled) and run   *)
(* again in order: the reset of the flags, scroll-to-time, auto-scroll.     *)
ChangeTargetDate(date) ==
  /\ date # scrollTarget
  /\ scrollTarget' = date
  /\ hasAutoScrolledRef' = FALSE
  /\ hasScrolledToTimeRef' = FALSE
  /\ timeFrame' = IF scrollToTimeOffset(date) # scrollToTimeOffset(scrollTarget)
                  THEN scrollToTimeEffect(scrollToTimeOffset(date), FALSE)
                  ELSE timeFrame
  /\ autoFrame' = IF autoScrollDeps(date, minutesSinceStartOfDay, autoScrollToNow)
                     # autoScrollDeps(scrollTarget, minutesSinceStartOfDay, autoScrollToNow)
                  THEN autoScrollEffect(date, minutesSinceStartOfDay, autoScrollToNow,
                                        FALSE, FALSE)
                  ELSE autoFrame
  /\ verticalScrolls' = <<>>
  /\ UNCHANGED <<autoScrollToNow, minutesSinceStartOfDay>>
  /\ UNCHANGED notScrollVars

\* useNowIndicator's interval: a minute has passed, DayView renders again
ClockTick ==
  /\ minutesSinceStartOfDay < NowMinutes + MaxTicks
  /\ minutesSinceStartOfDay' = minutesSinceStartOfDay + 1
  /\ autoFrame' = IF autoScrollDeps(scrollTarget, minutesSinceStartOfDay', autoScrollToNow)
                     # autoScrollDeps(scrollTarget, minutesSinceStartOfDay, autoScrollToNow)
                  THEN autoScrollEffect(scrollTarget, minutesSinceStartOfDay', autoScrollToNow,
                                        hasAutoScrolledRef, hasScrolledToTimeRef)
                  ELSE autoFrame
  /\ UNCHANGED <<scrollTarget, autoScrollToNow, hasAutoScrolledRef, hasScrolledToTimeRef,
                 timeFrame, verticalScrolls>>
  /\ UNCHANGED notScrollVars

\* the animation frame of the scroll-to-time effect
ScrollToTimeFrame ==
  /\ timeFrame # Null
  /\ Len(verticalScrolls) < MaxScrolls
  /\ verticalScrolls' = Append(verticalScrolls, [kind |-> "time", y |-> timeFrame.y])
  /\ hasScrolledToTimeRef' = TRUE
  /\ timeFrame' = Null
  /\ UNCHANGED <<scrollTarget, autoScrollToNow, minutesSinceStartOfDay, hasAutoScrolledRef,
                 autoFrame>>
  /\ UNCHANGED notScrollVars

\* the animation frame of the auto-scroll effect
AutoScrollFrame ==
  /\ autoFrame # Null
  /\ Len(verticalScrolls) < MaxScrolls
  /\ verticalScrolls' = Append(verticalScrolls, [kind |-> "now", y |-> autoFrame.y])
  /\ hasAutoScrolledRef' = TRUE
  /\ autoFrame' = Null
  /\ UNCHANGED <<scrollTarget, autoScrollToNow, minutesSinceStartOfDay, hasScrolledToTimeRef,
                 timeFrame>>
  /\ UNCHANGED notScrollVars

NextScroll ==
  \/ \E date \in ScrollTargets : ChangeTargetDate(date)
  \/ ClockTick
  \/ ScrollToTimeFrame
  \/ AutoScrollFrame

\* ----------------------------------------------------------- specifications

\* the Month view
SpecMonth == InitMonth /\ [][NextMonth]_vars

\* assignGlobalRows called on arbitrary lists of positions
SpecRows == InitRows /\ [][NextRows]_vars

\* the Day view's filter and vertical positioning of one event
SpecDay == InitDay /\ [][NextDay]_vars

\* the Week view's presence bars and per-day events
SpecWeek == InitWeek /\ [][NextWeek]_vars

\* one day column of the Week view
SpecColumn == InitColumn /\ [][NextColumn]_vars

\* the Calendar's press handlers
SpecCalendar == InitCalendar /\ [][NextCalendar]_vars

\* one view's swipe gestures
SpecSwipe == InitSwipe /\ [][NextSwipe]_vars

\* the Day view's header and content scroll views kept in step
SpecSync == InitSync /\ [][NextSync]_vars

\* the Day view's vertical scroll effects
SpecScroll == InitScroll /\ [][NextScroll]_vars

\* ------------------------------------------------- claims: assignGlobalRows

\* every position of a result of assignGlobalRows
resultPositions(result) ==
  UNION {{result[w][k] : k \in 1..Len(result[w])} : w \in DOMAIN result}

\* the (eventId, row, isVisible) triples of a result
keyRows(result) ==
  {<<p.event.eventId, p.row, p.isVisible>> : p \in resultPositions(result)}

permuted(positions, f) == [i \in 1..Len(positions) |-> positions[f[i]]]

\* C1  Row stability: in the result of assignGlobalRows, any two positions
\* with the same eventId carry the same row, whatever weeks they are in.
C1_RowStability ==
  rowDone =>
    \A p \in resultPositions(rowResult) : \A q \in resultPositions(rowResult) :
      p.event.eventId = q.event.eventId => p.row = q.row

\* a result holding one eventId in two weeks, on a row other than 0
C1_Witness ==
  /\ rowDone
  /\ \E p \in resultPositions(rowResult) : \E q \in resultPositions(rowResult) :
       /\ p.event.eventId = q.event.eventId
       /\ p.weekIndex # q.weekIndex
       /\ p.row >= 1

\* C2  Row determinism: every permutation of the input list gives each
\* eventId the same row and the same isVisible, and so does any list with the
\* same set of eventIds (here: the list followed by itself).
C2_RowDeterminism ==
  rowDone =>
    /\ \A f \in Permutations(1..Len(rowPositions)) :
         keyRows(assignGlobalRows(permuted(rowPositions, f), rowLimit)) = keyRows(rowResult)
    /\ keyRows(assignGlobalRows(rowPositions \o rowPositions, rowLimit)) = keyRows(rowResult)

\* a result for a list whose eventIds are first met in an order that is not
\* the sorted one
C2_Witness ==
  /\ rowDone
  /\ Len(rowPositions) >= 3
  /\ Len(uniqueEventIds(rowPositions)) >= 2
  /\ uniqueEventIds(rowPositions) # sortSeq(uniqueEventIds(rowPositions))

\* C3  Every position gets row = the index of its eventId among the sorted
\* distinct eventIds of all input positions (rows are exactly 0..k-1, e.g.
\* "entity-2" -> 0 and "entity-5" -> 1) and isVisible = (row < maxVisibleRows);
\* every input position is in the output exactly once, under its weekIndex,
\* those at or beyond the limit kept with isVisible = FALSE.
C3_RowIsSortedIndex ==
  rowDone =>
    LET ids == {rowPositions[i].event.eventId : i \in 1..Len(rowPositions)}
        rank(id) == Cardinality({other \in ids : stringLess(other, id)})
        out == resultPositions(rowResult)
    IN  /\ \A p \in out :
             /\ p.row = rank(p.event.eventId)
             /\ p.isVisible = (p.row < rowLimit)
        /\ {p.row : p \in out} = 0..(Cardinality(ids) - 1)
        /\ (ids = {<<50>>, <<53>>} =>
              \A p \in out : p.row = IF p.event.eventId = <<50>> THEN 0 ELSE 1)
        /\ DOMAIN rowResult = {rowPositions[i].weekIndex : i \in 1..Len(rowPositions)}
        /\ \A w \in DOMAIN rowResult :
             /\ \A k \in 1..Len(rowResult[w]) : rowResult[w][k].weekIndex = w
             /\ [k \in 1..Len(rowResult[w]) |->
                   [rowResult[w][k] EXCEPT !.row = 0, !.isVisible = TRUE]]
                = inWeek(rowPositions, w)

\* a result that keeps a position beyond the limit, for "entity-2" and
\* "entity-5" among the keys
C3_Witness ==
  /\ rowDone
  /\ \E p \in resultPositions(rowResult) : ~p.isVisible /\ p.row >= rowLimit
  /\ \E p \in resultPositions(rowResult) : p.event.eventId = <<50>>
  /\ \E p \in resultPositions(rowResult) : p.event.eventId = <<53>>

\* --------------------------------------------------------- claims: Month view

weeksOfGrid == calendarize(target)

\* the first midnight of week w of the grid
weekStartOf(w) == firstDayOfWeek(target, weeksOfGrid[w])

\* the cells of the grid that are days of the target month
monthCells == {c \in (DOMAIN weeksOfGrid) \X (0..6) : weeksOfGrid[c[1]][c[2]] > 0}

cellDate(c) == dateOfMonth(target, weeksOfGrid[c[1]][c[2]])

wellFormed(event) == Before(event.start, event.end)

\* the overflow count shown in cell c: the map's entry, 0 when it has none
overflowAt(c) == IF c \in DOMAIN overflowByDay THEN overflowByDay[c] ELSE 0

\* the event's interval meets one of the seven days of week w
intersectsWeek(event, w) ==
  \E j \in 0..6 :
    eventOverlapsDay(event.start, event.end, Instant(weekStartOf(w).d + j, 0))

\* the indexes of the positions of event in week w
positionsOf(event, w) ==
  {k \in 1..Len(eventPositions) :
     eventPositions[k].event = event /\ eventPositions[k].weekIndex = w}

\* C4  For every cell of the target month, the overflow map holds
\* max(0, N - maxVisibleRows) under the cell's key, N being the number of
\* distinct eventIds with a position in that week whose event overlaps the
\* day, and holds no entry when that value is 0.
C4_OverflowIsKeysBeyondLimit ==
  (\A i \in 1..Len(events) : wellFormed(events[i])) =>
    \A c \in monthCells :
      LET N == Cardinality(
                 {eventPositions[k].event.eventId :
                    k \in {x \in 1..Len(eventPositions) :
                             /\ eventPositions[x].weekIndex = c[1]
                             /\ eventOverlapsDay(eventPositions[x].event.start,
                                                 eventPositions[x].event.end,
                                                 cellDate(c))}})
          hidden == Max(0, N - maxVisibleRows)
      IN  /\ (hidden = 0) = (c \notin DOMAIN overflowByDay)
          /\ overflowAt(c) = hidden

\* C5  Overflow conservation per day: of the N eventIds present on a day,
\* exactly min(N, L) are marked visible by assignGlobalRows, and the day's
\* overflow count is the number of those eventIds whose row is >= L.
C5_OverflowConservation ==
  (\A i \in 1..Len(events) : wellFormed(events[i])) =>
    \A c \in monthCells :
      LET keys == eventIdsOnThisDay(eventPositions, c[1], cellDate(c))
          rowed == IF c[1] \in DOMAIN positionsByWeek
                     THEN {positionsByWeek[c[1]][k] : k \in 1..Len(positionsByWeek[c[1]])}
                     ELSE {}
          visible == {id \in keys : \E p \in rowed : p.event.eventId = id /\ p.isVisible}
          beyond == {id \in keys :
                       \E p \in rowed : p.event.eventId = id /\ p.row >= maxVisibleRows}
      IN  /\ Cardinality(visible) = Min(Cardinality(keys), maxVisibleRows)
          /\ overflowAt(c) = Cardinality(beyond)

\* C6  Coverage: for an event with start < end and a week W of the grid,
\* getMultiDayPosition returns a position iff the event's interval meets one
\* of the seven days of W.
C6_PositionIffIntersects ==
  \A i \in 1..Len(events) : \A w \in DOMAIN weeksOfGrid :
    wellFormed(events[i]) =>
      ((positionsOf(events[i], w) # {}) <=> intersectsWeek(events[i], w))

\* C7  Width floor: every position has a width of at least 2 px, for every
\* event (degenerate ones too), week and cell width >= 0.
C7_WidthFloor ==
  /\ \A k \in 1..Len(eventPositions) : eventPositions[k].width >= 2 * PxScale
  /\ \A p \in resultPositions(positionsByWeek) : p.width >= 2 * PxScale

\* a position of an event that ends before it starts, whose computed width
\* is negative, and a position in a container of width 0
C7_Witness ==
  \E k \in 1..Len(eventPositions) :
    LET p == eventPositions[k]
    IN  /\ Before(p.event.end, p.event.start)
        /\ multiDaySpan(p.event, weekStartOf(p.weekIndex),
                        calendarWidth * MINUTES_IN_DAY).width < 0
        /\ p.width = 2 * PxScale

minuteAligned(t) == t.ms % MsPerMinute = 0

\* the whole minutes from the first midnight of week w to the instant t
minutesIntoWeek(t, w) ==
  (t.d - weekStartOf(w).d) * MINUTES_IN_DAY + (t.ms \div MsPerMinute)

\* where the bar of event begins and ends in week w, in minutes from the
\* first midnight of the week: the event's interval cut to the week
expectedStart(event, w) == Max(0, minutesIntoWeek(event.start, w))
expectedEnd(event, w) == Min(7 * MINUTES_IN_DAY, minutesIntoWeek(event.end, w))

\* C8  Horizontal geometry: for a minute-aligned event that intersects week W,
\* left = cellWidth * (minutes from W's first midnight to max(start, start of
\* W)) / 1440, and, when the span so computed is at least 2 px wide,
\* left + width = cellWidth * (minutes from W's first midnight to min(end,
\* end of W)) / 1440.  (In units of 1/(7 * 1440) px, cellWidth * m / 1440 is
\* calendarWidth * m.)
C8_HorizontalGeometry ==
  \A i \in 1..Len(events) : \A w \in DOMAIN weeksOfGrid :
    LET e == events[i]
        l == calendarWidth * expectedStart(e, w)
        r == calendarWidth * expectedEnd(e, w)
    IN  (/\ wellFormed(e)
         /\ minuteAligned(e.start)
         /\ minuteAligned(e.end)
         /\ intersectsWeek(e, w)) =>
          /\ positionsOf(e, w) # {}
          /\ \A k \in positionsOf(e, w) :
               /\ eventPositions[k].left = l
               /\ (r - l >= 2 * PxScale =>
                     eventPositions[k].left + eventPositions[k].width = r)

\* in one grid, at a width of 350 px: a bar that starts within its week at a
\* fraction of a cell and runs to the week's right edge, the bar of the same
\* event across the whole next week, and a bar within one day that starts and
\* ends at fractions of its cell
C8_Witness ==
  /\ calendarWidth = 350
  /\ \E k \in 1..Len(eventPositions) : \E m \in 1..Len(eventPositions) :
       LET p == eventPositions[k]
           q == eventPositions[m]
       IN  /\ p.event = q.event
           /\ p.isFirstWeek /\ ~p.isLastWeek
           /\ p.left % (calendarWidth * MINUTES_IN_DAY) # 0
           /\ p.width > 2 * PxScale
           /\ p.left + p.width = 7 * calendarWidth * MINUTES_IN_DAY
           /\ ~q.isFirstWeek /\ ~q.isLastWeek
           /\ q.left = 0
           /\ q.width = 7 * calendarWidth * MINUTES_IN_DAY
  /\ \E k \in 1..Len(eventPositions) :
       LET p == eventPositions[k]
       IN  /\ p.isFirstWeek /\ p.isLastWeek
           /\ p.event.start.d = p.event.end.d
           /\ p.left % (calendarWidth * MINUTES_IN_DAY) # 0
           /\ p.width > 2 * PxScale
           /\ (p.left + p.width) % (calendarWidth * MINUTES_IN_DAY) # 0

\* C9  For every position, isFirstWeek is true exactly when the calendar day
\* of event.start lies within the week and isLastWeek exactly when the
\* calendar day of event.end does; so over the weeks of one grid at most one
\* week holds a position of an event with isFirstWeek, and at most one with
\* isLastWeek.
C9_FirstLastWeekFlags ==
  /\ \A k \in 1..Len(eventPositions) :
       LET p == eventPositions[k]
           first == weekStartOf(p.weekIndex).d
       IN  /\ p.isFirstWeek = (first <= p.event.start.d /\ p.event.start.d <= first + 6)
           /\ p.isLastWeek = (first <= p.event.end.d /\ p.event.end.d <= first + 6)
  /\ \A i \in 1..Len(events) :
       LET mine == {k \in 1..Len(eventPositions) : eventPositions[k].event = events[i]}
       IN  /\ Cardinality({eventPositions[k].weekIndex :
                             k \in {x \in mine : eventPositions[x].isFirstWeek}}) <= 1
           /\ Cardinality({eventPositions[k].weekIndex :
                             k \in {x \in mine : eventPositions[x].isLastWeek}}) <= 1

\* an event with a position in its first week, which it starts on a Saturday,
\* and another in its last week, which it ends on a Sunday
C9_Witness ==
  \E k \in 1..Len(eventPositions) : \E m \in 1..Len(eventPositions) :
    LET p == eventPositions[k]
        q == eventPositions[m]
    IN  /\ p.event = q.event
        /\ p.weekIndex # q.weekIndex
        /\ p.isFirstWeek /\ ~p.isLastWeek
        /\ q.isLastWeek /\ ~q.isFirstWeek
        /\ dayOfWeek(p.event.start) = 6
        /\ dayOfWeek(p.event.end) = 0

\* ----------------------------------------------------------- claims: Day view

spansSeveralDays(event) == event.start.d < event.end.d

\* the part of the event within the day of date, in milliseconds
msWithinDay(event, date) ==
  LET from == IF event.start.d < date.d THEN 0 ELSE event.start.ms
      to == IF event.end.d > date.d THEN MsPerDay - 1 ELSE event.end.ms
  IN  to - from

\* C10 as stated: for an event that spans several days, viewed on day D,
\* top >= 0 and top + height <= 24 * hourHeight.
C10_NeverPastDayBottom ==
  dayPc = "shown" =>
    \A i \in 1..Len(dayViewed) :
      spansSeveralDays(dayViewed[i]) =>
        /\ dayPositions[i].top >= 0
        /\ dayPositions[i].top + dayPositions[i].height <= dayHeight

\* C10 as amended: for an event that spans several days, viewed on day D,
\* top >= 0 and top < 24 * hourHeight; top + height <= 24 * hourHeight
\* whenever the part of the event within D is at least 20 px tall; otherwise
\* the height is the minimum of 20 px and top + height < 24 * hourHeight + 20.
C10_WithinDayUnlessMinHeight ==
  dayPc = "shown" =>
    \A i \in 1..Len(dayViewed) :
      spansSeveralDays(dayViewed[i]) =>
        LET pos == dayPositions[i]
            bottom == dayHeight
            minHeight == dayPx(20, dayHourHeight)
        IN  /\ pos.top >= 0
            /\ pos.top < bottom
            /\ IF msWithinDay(dayViewed[i], dayTarget) >= minHeight
                 THEN pos.top + pos.height <= bottom
                 ELSE pos.height = minHeight /\ pos.top + pos.height < bottom + minHeight

\* an event that began before the day viewed and ends after it, shown over
\* the whole day
C10_Witness ==
  /\ dayPc = "shown"
  /\ Len(dayViewed) = 1
  /\ dayViewed[1].start.d < dayTarget.d
  /\ dayViewed[1].end.d > dayTarget.d
  /\ dayPositions[1].top = 0
  /\ dayPositions[1].height = MsPerDay - 1


\* ------------------------------------------------------------ claims: WeekView

\* the first day of the week shown, and its seven days
weekStartShown == getWeekBoundaries(wkTarget)
weekDay(i) == addDays(weekStartShown, i)

\* the elements of a list
elements(s) == {s[k] : k \in 1..Len(s)}

\* start is before the last millisecond of the day and end is after its 00:00
onDay(event, day) ==
  /\ event.start.d < day.d \/ (event.start.d = day.d /\ event.start.ms < MsPerDay - 1)
  /\ event.end.d > day.d \/ (event.end.d = day.d /\ event.end.ms > 0)

(* C11: eventOverlapsDay is true iff start is before the end of the day and  *)
(* end is after its start; getEventsForDate and getEventsForDay keep        *)
(* exactly the events of the list that pass this test, in the list's order, *)
(* and no event that fails it (such as one ending at the day's 00:00) is    *)
(* among the events of that day's column.                                   *)
C11_HalfOpenDayOverlap ==
  \A day \in {weekDay(i) : i \in 0..6} \cup {wkTarget} :
    /\ \A e \in elements(wkEvents) :
         eventOverlapsDay(e.start, e.end, day) = onDay(e, day)
    /\ getEventsForDate(wkEvents, day) = SelectSeq(wkEvents, LAMBDA e : onDay(e, day))
    /\ getEventsForDay(wkEvents, day) = SelectSeq(wkEvents, LAMBDA e : onDay(e, day))
    /\ getEventsForDay(weekEvents, day) = SelectSeq(wkEvents, LAMBDA e : onDay(e, day))
    /\ \A i \in 0..6 :
         /\ \A e \in elements(dayEventsPerDay[i]) : onDay(e, weekDay(i))
         /\ expandedWeek =>
              dayEventsPerDay[i] = SelectSeq(wkEvents, LAMBDA e : onDay(e, weekDay(i)))

\* an event ending at Thursday's 00:00 is in Wednesday's column and not in
\* Thursday's
C11_Witness ==
  /\ weekStartShown = Instant(35, 0)
  /\ \E e \in elements(wkEvents) :
       /\ e.end = Instant(39, 0)
       /\ e \in elements(dayEventsPerDay[3])
       /\ e \notin elements(dayEventsPerDay[4])
       /\ e \notin elements(getEventsForDate(wkEvents, Instant(39, 10 * MsPerHour)))
\* ----------------------------------------------------------- claims: DayColumn

\* A overlaps B under half-open intervals
overlap(a, b) == Before(a.start, b.end) /\ Before(b.start, a.end)

\* the events rendered: those of all groups
renderedEvents == UNION {elements(colEventGroups[g]) : g \in 1..Len(colEventGroups)}

\* the three events form a chain: the second overlaps both others, which
\* do not overlap each other
isChain(evs) ==
  /\ Len(evs) = 3
  /\ \E a, b, c \in elements(evs) :
       /\ Cardinality({a, b, c}) = 3
       /\ overlap(a, b) /\ overlap(b, c) /\ ~overlap(a, c)

(* C12: three events of a day that form a chain A-B-C (A overlaps B, B      *)
(* overlaps C, A does not overlap C), in any order of their starts, are     *)
(* rendered as one group of 2 events with an overflow of 1.                  *)
C12_ChainIsOneCluster ==
  (colPc = "rendered" /\ isChain(colEvents)) =>
    /\ Len(colEventGroups) = 1
    /\ Len(colEventGroups[1]) = MAX_EVENTS_PER_SLOT
    /\ colGroupOverflow = <<1>>
\* the members of the set that a chain of overlapping members of the set
\* links to the members in `reached`
RECURSIVE linkedWithin(_, _)
linkedWithin(members, reached) ==
  LET more == {m \in members : \E r \in reached : overlap(m, r)}
  IN  IF more \subseteq reached THEN reached
      ELSE linkedWithin(members, reached \cup more)

\* each member is linked to each other by a chain of overlapping members
chainConnected(members) ==
  \A a \in members : linkedWithin(members, {a}) = members

\* the clusters gathered by the grouping, before the cut to 2 events
gatheredClusters == overlapClusters(colSortedEvents, 1, {})

(* C13: in every group rendered, and in every cluster gathered before the   *)
(* cut to 2 events, each pair of events is linked by a chain of overlapping *)
(* members of the same cluster; a cluster of several events has no member   *)
(* that overlaps no other member.                                           *)
C13_GroupingSoundness ==
  colPc = "rendered" =>
    /\ \A g \in 1..Len(colEventGroups) :
         LET group == elements(colEventGroups[g])
         IN  /\ chainConnected(group)
             /\ \A a \in group : group = {a} \/ \E b \in group \ {a} : overlap(a, b)
    /\ \A c \in 1..Len(gatheredClusters) :
         LET cluster == elements(gatheredClusters[c])
         IN  /\ chainConnected(cluster)
             /\ \A a \in cluster : cluster = {a} \/ \E b \in cluster \ {a} : overlap(a, b)

\* a cluster of three events with two that do not overlap, cut to a group of
\* two events that do, next to another group
C13_Witness ==
  /\ colPc = "rendered"
  /\ Len(colEventGroups) >= 2
  /\ \E c \in 1..Len(gatheredClusters) :
       /\ Len(gatheredClusters[c]) = 3
       /\ \E a, b \in elements(gatheredClusters[c]) : a.id # b.id /\ ~overlap(a, b)
       /\ Len(colEventGroups[c]) = 2
       /\ overlap(colEventGroups[c][1], colEventGroups[c][2])
(* C14: each group rendered has at most MAX_EVENTS_PER_SLOT events, and the *)
(* overflow computed for it is the number of members of its cluster beyond  *)
(* the cap, max(0, |cluster| - 2); events of other clusters do not count.   *)
C14_ClusterCapAndOverflow ==
  colPc = "rendered" =>
    \A g \in 1..Len(colEventGroups) :
      /\ Len(colEventGroups[g]) <= MAX_EVENTS_PER_SLOT
      /\ colGroupOverflow[g] = Max(0, Len(gatheredClusters[g]) - MAX_EVENTS_PER_SLOT)
\* the events of the list active at instant t, as half-open intervals
activeAt(evs, t) ==
  {i \in 1..Len(evs) : ~Before(t, evs[i].start) /\ Before(t, evs[i].end)}

\* the largest number of events active at the same instant (0 for no event);
\* it is reached at the start of some event
maxConcurrency(evs) ==
  IF evs = <<>> THEN 0
  ELSE LET counts == {Cardinality(activeAt(evs, evs[i].start)) : i \in 1..Len(evs)}
       IN  CHOOSE n \in counts : \A m \in counts : m <= n

(* C15: for a list of events with start < end, calculateDayOverflow is      *)
(* max(0, C - 2), C being the largest number of events active at the same   *)
(* instant under half-open intervals [start, end): an event ending at t and *)
(* one starting at t are not concurrent. The empty list gives 0.            *)
C15_DayOverflowIsConcurrencyBeyondTwo ==
  /\ colDayOverflow = Max(0, maxConcurrency(colEvents) - 2)
  /\ colEvents = <<>> => colDayOverflow = 0

\* three events active together, and a fourth that starts when they end
C15_Witness ==
  /\ colPc = "rendered"
  /\ Len(colEvents) = 4
  /\ maxConcurrency(colEvents) = 3
  /\ colDayOverflow = 1
  /\ \E i \in 1..4 :
       Cardinality({j \in 1..4 : colEvents[j].end = colEvents[i].start}) = 3
\* ------------------------------------------------------ claims: presence bars

\* the indices of the segments of a key in the list of indicators
segmentsOf(key) ==
  {k \in 1..Len(propertyIndicatorsWithRows) : propertyIndicatorsWithRows[k].propertyId = key}

\* the days a segment covers
daysOf(segment) == segment.startDay..segment.endDay

\* the keys of the presence map of the week shown, and a key's presence set
keysShown == elements(presenceKeys(weekEvents, weekStartShown))
presenceShown(key) == presenceDays(weekEvents, weekStartShown, key)

(* C16: the segments of each group key are the maximal runs of consecutive  *)
(* days of its presence set: 0 <= startDay <= endDay <= 6, two segments of  *)
(* a key neither meet nor touch, and together they cover the presence set   *)
(* exactly; no segment belongs to a key without presence.                   *)
C16_SegmentsAreMaximalRuns ==
  /\ \A k \in 1..Len(propertyIndicatorsWithRows) :
       LET seg == propertyIndicatorsWithRows[k]
       IN  /\ seg.propertyId \in keysShown
           /\ 0 <= seg.startDay /\ seg.startDay <= seg.endDay /\ seg.endDay <= 6
  /\ \A key \in keysShown :
       /\ UNION {daysOf(propertyIndicatorsWithRows[k]) : k \in segmentsOf(key)}
            = presenceShown(key)
       /\ \A k, m \in segmentsOf(key) :
            k # m => \/ propertyIndicatorsWithRows[k].endDay + 1
                          < propertyIndicatorsWithRows[m].startDay
                     \/ propertyIndicatorsWithRows[m].endDay + 1
                          < propertyIndicatorsWithRows[k].startDay

\* a key present on days {0, 1, 2, 5, 6} has exactly the segments [0, 2] and
\* [5, 6]
C16_Witness ==
  \E key \in keysShown :
    /\ presenceShown(key) = {0, 1, 2, 5, 6}
    /\ {<<propertyIndicatorsWithRows[k].startDay, propertyIndicatorsWithRows[k].endDay>> :
          k \in segmentsOf(key)} = {<<0, 2>>, <<5, 6>>}
    /\ Cardinality(segmentsOf(key)) = 2
\* the entity ids of the events given to the Week view
entityIdsGiven ==
  {extractEntityId(e.eventId).id :
     e \in {x \in elements(wkEvents) : extractEntityId(x.eventId) # Null}}

\* the days of the week shown on which an event of the key, of one of the
\* four types, occurs
daysWithEventOf(key) ==
  {d \in 0..6 : \E e \in elements(wkEvents) :
     /\ extractEntityId(e.eventId) # Null
     /\ extractEntityId(e.eventId).id = key
     /\ e.type \in IndicatorTypes
     /\ onDay(e, weekDay(d))}

\* the days the segments of the key cover
daysCovered(key) ==
  UNION {daysOf(propertyIndicatorsWithRows[k]) : k \in segmentsOf(key)}

(* C17: for every entity id K, the days covered by K's presence segments    *)
(* are exactly the days of the week on which an event of K of type          *)
(* property, cleaning, service or otherService occurs, an event lying       *)
(* wholly on the last day of the week included.                             *)
C17_PresenceIsDaysWithEvents ==
  \A key \in entityIdsGiven : daysCovered(key) = daysWithEventOf(key)
\* the index of the first indicator with the propertyId of indicator k
firstSeenAt(k) ==
  CHOOSE j \in 1..k :
    /\ propertyIndicatorsWithRows[j].propertyId = propertyIndicatorsWithRows[k].propertyId
    /\ \A i \in 1..(j - 1) :
         propertyIndicatorsWithRows[i].propertyId # propertyIndicatorsWithRows[k].propertyId

\* the distinct propertyIds met before indicator k
seenBefore(k) == {propertyIndicatorsWithRows[i].propertyId : i \in 1..(k - 1)}

(* C18: rows follow the order of first appearance: the row of an indicator  *)
(* is the number of distinct propertyIds met before its propertyId first    *)
(* appeared, so the rows are exactly 0..k-1 for k propertyIds, segments of  *)
(* one propertyId share a row and distinct propertyIds have distinct rows.  *)
C18_RowsInFirstSeenOrder ==
  LET inds == propertyIndicatorsWithRows
      ids == {inds[k].propertyId : k \in 1..Len(inds)}
  IN  /\ \A k \in 1..Len(inds) : inds[k].row = Cardinality(seenBefore(firstSeenAt(k)))
      /\ {inds[k].row : k \in 1..Len(inds)} = 0..(Cardinality(ids) - 1)
      /\ \A k, m \in 1..Len(inds) :
           (inds[k].propertyId = inds[m].propertyId) = (inds[k].row = inds[m].row)

\* two propertyIds, the second of them with two segments
C18_Witness ==
  LET inds == propertyIndicatorsWithRows
  IN  /\ Len(inds) = 3
      /\ inds[1].propertyId # inds[2].propertyId
      /\ inds[2].propertyId = inds[3].propertyId
      /\ <<inds[1].row, inds[2].row, inds[3].row>> = <<0, 1, 1>>
\* the indices of the indicators hidden under the limit
hiddenUnder(limit) ==
  {k \in 1..Len(propertyIndicatorsWithRows) : propertyIndicatorsWithRows[k].row >= limit}

(* C19: collapsed, the row limit is 2 whatever the rows; the visible        *)
(* indicators are those with row < limit, in order, overflowCount is the    *)
(* number of the others and overflowByDay[d] the number of the others that  *)
(* cover day d. Expanded, the limit is the largest row + 1, every indicator *)
(* is visible and overflowCount and every overflowByDay[d] are 0. This      *)
(* holds after every toggle.                                                *)
C19_VisibleAndOverflowSplit ==
  LET inds == propertyIndicatorsWithRows
      hidden == hiddenUnder(weekVisibleLimit)
  IN  /\ ~expandedWeek => weekVisibleLimit = 2
      /\ weekSplit.visibleIndicators = SelectSeq(inds, LAMBDA ind : ind.row < weekVisibleLimit)
      /\ weekSplit.overflowCount = Cardinality(hidden)
      /\ \A d \in 0..6 :
           weekSplit.overflowByDay[d] = Cardinality({k \in hidden : d \in daysOf(inds[k])})
      /\ expandedWeek =>
           /\ \A k \in 1..Len(inds) : inds[k].row < weekVisibleLimit
           /\ \/ \E k \in 1..Len(inds) : inds[k].row + 1 = weekVisibleLimit
              \/ (inds = <<>> /\ weekVisibleLimit = 1)
           /\ weekSplit.visibleIndicators = inds
           /\ weekSplit.overflowCount = 0
           /\ \A d \in 0..6 : weekSplit.overflowByDay[d] = 0

\* collapsed with three rows: the third row's segment is hidden and counted
\* on the days it covers
C19_Witness ==
  /\ ~expandedWeek
  /\ Len(propertyIndicatorsWithRows) = 3
  /\ Len(weekSplit.visibleIndicators) = 2
  /\ weekSplit.overflowCount = 1
  /\ \E d, e \in 0..6 : weekSplit.overflowByDay[d] = 1 /\ weekSplit.overflowByDay[e] = 0
\* ------------------------------------------------- claims: events without key

\* the month of the grid that shows the day
monthOf(day) == IF day.d < ThisMonth.first THEN PrevMonth ELSE ThisMonth

\* the Month view has a bar for the event in the grid of the day's month
inMonthGrid(e, day) ==
  \E pos \in elements(computeEventPositions(wkEvents, monthOf(day), 350)) : pos.event = e

\* the Week view has the event in the day's column
inWeekColumn(e, i) == e \in elements(dayEventsPerDay[i])

\* the Day view of the day has the event in one of its lanes
inDayLane(e, day, properties) ==
  e \in elements(laneEvents(groupEventsByProperty(getEventsForDate(wkEvents, day),
                                                  properties.available, properties.toShow)))

(* C20: an event whose eventId yields no entity id is still rendered on     *)
(* every day it overlaps: the Month view has a bar for it, the Week view    *)
(* has it in the day's column and the Day view has it in a lane.            *)
C20_EventWithoutKeyStillRendered ==
  \A e \in elements(wkEvents) :
    extractEntityId(e.eventId) = Null =>
      \A i \in 0..6 :
        onDay(e, weekDay(i)) =>
          /\ inMonthGrid(e, weekDay(i))
          /\ inWeekColumn(e, i)
          /\ \A properties \in DayProperties : inDayLane(e, weekDay(i), properties)

\* ------------------------------------------------------ claims: Calendar

(* C21: in every view mode, pressing a rendered event makes the Calendar    *)
(* call the onEventPress prop with that event.                              *)
C21_PressCallsOnEventPress ==
  calPressed # Null =>
    \E k \in 1..Len(calCalls) :
      calCalls[k] = [fn |-> "onEventPress", event |-> calPressed.event]


\* ------------------------------------------- claims: degenerate month layout

(* C22 as stated: with a zero-width container or with zero events the month *)
(* layout returns empty structures: no EventPosition is produced and the    *)
(* row map and the overflow map are empty.                                  *)
C22_EmptyStructures ==
  (calendarWidth = 0 \/ events = <<>>) =>
    /\ eventPositions = <<>>
    /\ DOMAIN positionsByWeek = {}
    /\ DOMAIN overflowByDay = {}

(* C22 amended: with zero events the month layout returns empty structures; *)
(* with a zero-width container no event bar is rendered, while positions    *)
(* (of the minimum width) are still produced for the events in the grid.    *)
C22_EmptyWithoutEventsNoBarsWithoutWidth ==
  /\ events = <<>> =>
       /\ eventPositions = <<>>
       /\ DOMAIN positionsByWeek = {}
       /\ DOMAIN overflowByDay = {}
  /\ calendarWidth = 0 =>
       /\ eventBars(calendarWidth, positionsByWeek) = {}
       /\ \A k \in 1..Len(eventPositions) : eventPositions[k].width = MIN_WIDTH * PxScale

C22_Witness ==
  /\ calendarWidth = 0
  /\ events # <<>>
  /\ eventPositions # <<>>
  /\ DOMAIN overflowByDay # {}
  /\ eventBars(calendarWidth, positionsByWeek) = {}


\* ------------------------------------------- claims: calculateOverflowByDay

(* C23: every cell (week, day) of the displayed grid, the leading and       *)
(* trailing cells showing days of the previous or next month included, that *)
(* has N > maxVisibleRows distinct group keys among the bars positioned in  *)
(* its week and touching its day, has the overflow entry N - maxVisibleRows.*)
C23_OverflowForEveryCell ==
  \A w \in DOMAIN calendarize(target), j \in 0..6 :
    LET n == Cardinality(eventIdsOnThisDay(eventPositions, w, shownDate(target, w, j)))
    IN  n > maxVisibleRows =>
          /\ <<w, j>> \in DOMAIN overflowByDay
          /\ overflowByDay[<<w, j>>] = n - maxVisibleRows


\* -------------------------------------------- claims: the cluster partition

\* the places (cluster, index) of the event in the clusters
placesIn(clusters, e) ==
  {p \in {<<g, k>> : g \in 1..Len(clusters), k \in 1..MaxColumnEvents + 1} :
     p[2] <= Len(clusters[p[1]]) /\ clusters[p[1]][p[2]] = e}

\* the events of the sorted list that are in none of the clusters before g
unprocessedAt(clusters, g) ==
  SelectSeq(colSortedEvents, LAMBDA e :
    \A h \in 1..(g - 1) : e \notin elements(clusters[h]))

(* C24: the grouping puts every event of the day in exactly one cluster;    *)
(* the first member of a cluster is its seed, the first event in start      *)
(* order that no earlier cluster holds, and every member overlaps it; each  *)
(* rendered group holds 1 or 2 events and no event is rendered twice.       *)
C24_ClusterPartition ==
  colPc = "rendered" =>
    /\ \A e \in elements(colEvents) : Cardinality(placesIn(gatheredClusters, e)) = 1
    /\ \A g \in 1..Len(gatheredClusters) :
         /\ gatheredClusters[g] # <<>>
         /\ gatheredClusters[g][1] = Head(unprocessedAt(gatheredClusters, g))
         /\ \A m \in elements(gatheredClusters[g]) : overlap(gatheredClusters[g][1], m)
    /\ \A g \in 1..Len(colEventGroups) : Len(colEventGroups[g]) \in {1, 2}
    /\ \A e \in elements(colEvents) : Cardinality(placesIn(colEventGroups, e)) <= 1

\* four events out of start order in two clusters, the first of them of
\* three events and cut to a group of two
C24_Witness ==
  /\ colPc = "rendered"
  /\ Len(colEvents) = 4
  /\ Len(gatheredClusters) = 2
  /\ Len(gatheredClusters[1]) = 3
  /\ Len(colEventGroups[1]) = 2
  /\ colSortedEvents # colEvents


(* C25: if the grouping of a day's events leaves an event unrendered (its   *)
(* cluster has more than 2 members), the day's "+X" count computed by      *)
(* calculateDayOverflow on the same list is at least 1.                     *)
C25_UnrenderedEventIsCounted ==
  (colPc = "rendered" /\ elements(colEvents) # renderedEvents) => colDayOverflow >= 1


\* ------------------------------------- claims: collapsed week view accounting

\* the events overlapping day i of the week that its column does not get
withheld(i) ==
  {e \in elements(wkEvents) : onDay(e, weekDay(i)) /\ e \notin elements(dayEventsPerDay[i])}

(* C26: in collapsed state every event overlapping a day d of the week that *)
(* is withheld from d's column is accounted for by the property bar's       *)
(* overflow, overflowByDay[d] >= 1; in expanded state every event           *)
(* overlapping d is passed to d's column.                                   *)
C26_WithheldEventsAreAccounted ==
  \A i \in 0..6 :
    /\ ~expandedWeek => (withheld(i) # {} => weekSplit.overflowByDay[i] >= 1)
    /\ expandedWeek => withheld(i) = {}


\* ------------------------------------------------- claims: useSwipeGesture

\* the move is beyond the threshold
beyond(d) == d < -DEFAULT_SWIPE_THRESHOLD \/ d > DEFAULT_SWIPE_THRESHOLD

(* C27: during one pan gesture at most one swipe callback is called in      *)
(* total, whatever the number of moves beyond the horizontal threshold; a   *)
(* move whose vertical displacement is beyond the threshold calls nothing;  *)
(* the handled flag is reset when the gesture ends, so a gesture's first    *)
(* move beyond the horizontal threshold (and not beyond the vertical one)   *)
(* calls the callback of its direction again.                               *)
C27_SwipeOncePerGesture ==
  /\ Len(swipeCalls) <= 1
  /\ swipeMove # Null =>
       /\ beyond(swipeMove.dy) => swipeMove.called = <<>>
       /\ swipeMove.handledBefore => swipeMove.called = <<>>
       /\ (beyond(swipeMove.dx) /\ ~beyond(swipeMove.dy) /\ swipeCalls = swipeMove.called) =>
            swipeMove.called = <<IF swipeMove.dx < 0 THEN "onSwipeLeft" ELSE "onSwipeRight">>
  /\ swipePc # "responder" => panHandledRef = FALSE
  /\ (swipePc = "responder" /\ panHandledRef) => Len(swipeCalls) = 1

\* the second gesture: a swipe was called, and a further move beyond the
\* threshold called nothing
C27_Witness ==
  /\ swipeGestures = 2
  /\ swipePc = "responder"
  /\ swipeCalls = <<"onSwipeRight">>
  /\ swipeMove.dx = -51
  /\ swipeMove.dy = 0
  /\ swipeMove.called = <<>>


\* ---------------------------------------- claims: useScrollSynchronization

(* C28: under every interleaving of user scrolls, scroll events caused by a *)
(* scrollTo and end events of the two views, the scroll event caused by one *)
(* side's scrollTo never makes the other side issue a scrollTo back, and    *)
(* isHeaderScrolling and isContentScrolling are never both true.            *)
C28_NoCircularUpdates ==
  /\ ~(isHeaderScrolling /\ isContentScrolling)
  /\ (syncLast # Null /\ syncLast.kind = "echo") => ~syncLast.scrollTo


(* C29: every lock flag set by a scroll handler is cleared once the user's  *)
(* scroll ends, so no reachable state leaves a flag true for ever: a flag   *)
(* is true only while the user drags its view or the view moves by          *)
(* momentum, that is while an onEndDrag or onMomentumEnd of the view that   *)
(* clears the flag is still to come.                                        *)
C29_LockHeldOnlyDuringUserScroll ==
  /\ isHeaderScrolling => scrollPhase["header"] # "rest"
  /\ isContentScrolling => scrollPhase["content"] # "rest"


\* ------------------------------------------- claims: DayView vertical scroll

\* targetDate carries a time of day: its hours or minutes are not 0
hasTime(date) == date.ms \div MsPerMinute # 0

\* the scrolls to now performed since targetDate last changed
scrollsToNow == SelectSeq(verticalScrolls, LAMBDA scroll : scroll.kind = "now")

\* the offset of the time of targetDate: 120 px above it, within the day
timeOffsetOf(date) ==
  Max(0, Min(scrollPx(date.ms \div MsPerMinute) - SCROLL_BUFFER_PX * 3, scrollTotalHeight - 3))

(* C30: once targetDate is a date-time whose time of day is not 00:00, the  *)
(* Day view performs one vertical scroll to that time's offset for this     *)
(* targetDate (the scroll is requested, or it is the one scroll performed), *)
(* and auto-scroll-to-now never runs for it; for a targetDate at 00:00      *)
(* auto-scroll-to-now runs at most once even as the clock ticks.            *)
C30_ScrollToTimeOncePerTargetDate ==
  /\ hasTime(scrollTarget) =>
       /\ \/ /\ timeFrame = [y |-> timeOffsetOf(scrollTarget)]
             /\ verticalScrolls = <<>>
          \/ /\ timeFrame = Null
             /\ verticalScrolls = <<[kind |-> "time", y |-> timeOffsetOf(scrollTarget)]>>
       /\ autoFrame = Null
       /\ scrollsToNow = <<>>
  /\ ~hasTime(scrollTarget) => Len(scrollsToNow) <= 1

====
